---- MODULE Spec2Model ----
(***************************************************************************)
(* Client scripts of the MCP Bridge REST API.                              *)
(*                                                                         *)
(*   Spec        the scripts as sequential processes: the Gemini agent     *)
(*               (llm_test.main) and the API demo (example_client), each    *)
(*               HTTP call split into the request and its outcome           *)
(*   SpecLive    the agent alone, runs of unbounded length, with fairness   *)
(***************************************************************************)
EXTENDS Integers, Sequences, FiniteSets, TLC

VARIABLES
    bounded,         \* the run is cut after MaxLLM responses and keeps its history
    script,          \* which script this run executes
    pc,              \* position of the script
    inflight,        \* HTTP requests sent and not yet answered
    failed,          \* requests that raised, with the LLM response count then
    exc,             \* exception being propagated, or NoExc
    gemini_key,      \* GEMINI_API_KEY is set
    servers,         \* list returned by GET /servers
    sidx,            \* loop index into servers (get_all_tools)
    all_tools,       \* dict server id -> tools (get_all_tools)
    llmSeq,          \* number of LLM responses received by the chat loop
    processed_response, \* tool_call entry of the most recent parsed LLM response
    tool_call,       \* tool_call variable of main's loop
    result,          \* result in main's tool loop
    error,           \* error in main's tool loop
    execResult,      \* what execute_tool returned for the current execution
    execN,           \* number of tool executions started
    fbN,             \* number of feedback messages sent to the LLM
    tool_feedback,   \* kind of the last feedback message
    promptsThisExec, \* confirmation prompts shown for the current execution
    confirmed,       \* the user's answer to the last confirmation prompt
    confirms,        \* POST /confirmations sent: execution, id, confirm
    answers,         \* answers given: execution, id, answer
    dstep,           \* example_client: index of the next tool execution
    tools,           \* example_client: tools listed for the chosen server
    text,            \* argument of process_llm_response
    parsed,          \* what process_llm_response returned
    payload,         \* the payload of the tool result the bridge holds
    spaced,          \* the payload is encoded with a space after , and :
    http_body,       \* the bridge's answer: body of a tool execution, status of /generate-postman
    returned,        \* what the function under test returned or raised, or the exit status
    client,          \* example_client: demonstrate_api's client is bound
    args,            \* arguments of the function or method called, or the environment
    out,             \* the request built, the value returned or the lines printed
    files            \* files written by the script

vars == <<bounded, script, pc, inflight, failed, exc, gemini_key, servers, sidx,
          all_tools, llmSeq, processed_response, tool_call, result, error, execResult, execN,
          fbN, tool_feedback, promptsThisExec, confirmed, confirms, answers,
          dstep, tools, client, text, parsed, payload, spaced, http_body, returned,
          args, out, files>>

agentVars == <<gemini_key, sidx, all_tools, llmSeq, processed_response, tool_call, result, error,
               execResult, execN, fbN, tool_feedback, promptsThisExec,
               confirmed, confirms, answers>>

demoVars == <<dstep, tools, client>>

fnVars == <<text, parsed, payload, spaced, http_body, returned, args, out, files>>

-----------------------------------------------------------------------------
(* Bounds *)

MaxLLM == 3          \* LLM responses received per run of the agent
MaxServers == 2      \* servers listed by the bridge
MaxPieces == 4       \* pieces a text given to process_llm_response is made of
MaxStrLen == 2       \* characters of a string in a tool result payload
MaxUriLen == 3       \* characters of a resource URI given to read_resource

-----------------------------------------------------------------------------
(* Values exchanged with the bridge and the LLM *)

NULL == "null"

ServerName(i) == IF i = 1 THEN "s1" ELSE IF i = 2 THEN "math" ELSE "s3"

ServerLists == {[i \in 1..n |-> ServerName(i)] : n \in 0..MaxServers}

ConfIds == {"c1"}

\* JSON bodies a tool endpoint or a confirmation endpoint can answer with
PyNone == [isDict |-> FALSE, rc |-> "absent", status |-> "None", cid |-> NULL]

RejectedByUser == [isDict |-> TRUE, rc |-> "absent", status |-> "rejected", cid |-> NULL]

ToolResults ==
    {[isDict |-> TRUE, rc |-> "absent", status |-> "ok", cid |-> NULL],
     [isDict |-> TRUE, rc |-> "truthy", status |-> "ok", cid |-> NULL],
     [isDict |-> FALSE, rc |-> "absent", status |-> "ok", cid |-> NULL],
     [isDict |-> TRUE, rc |-> "absent", status |-> "rejected", cid |-> NULL]}
    \cup {[isDict |-> TRUE, rc |-> "true", status |-> "ok", cid |-> c] : c \in ConfIds}
    \* the body null: response.json() is None
    \cup {PyNone}

\* tool_call values of a parsed LLM response
ToolCalls ==
    {[kind |-> "null"], [kind |-> "nondict"]}
    \cup {[kind |-> "obj", server_id |-> s, tool_name |-> t, parameters |-> p] :
            s \in {NULL, "s1"}, t \in {NULL, "t1"}, p \in {NULL, "p1"}}

\* ways a request fails: no response, error status with a JSON or a text body
FailKinds == {"conn", "http_json", "http_text"}

Req(m, path, body) == [m |-> m, path |-> path, body |-> body]

-----------------------------------------------------------------------------
(* Exceptions: the call chain of every request site, innermost first *)

NoExc == [site |-> "none", frame |-> 0, kind |-> "none"]

Chain(site) ==
    CASE site = "main_health"       -> <<"main">>
      [] site = "get_all_servers"   -> <<"get_all_servers", "get_all_tools", "main">>
      [] site = "get_server_tools"  -> <<"get_server_tools", "get_all_tools", "main">>
      [] site = "execute_tool"      -> <<"execute_tool", "main">>
      [] site = "confirm_operation" -> <<"confirm_operation", "main">>
      [] site = "ctor_health"       -> <<"health_check", "_test_connection", "__init__",
                                         "demonstrate_api", "__main__">>
      [] site = "demo_health"       -> <<"health_check", "demonstrate_api", "__main__">>
      [] site = "demo_servers"      -> <<"get_servers", "demonstrate_api", "__main__">>
      [] site = "demo_tools"        -> <<"get_tools", "demonstrate_api", "__main__">>
      [] site = "demo_exec"         -> <<"execute_tool", "demonstrate_api", "__main__">>
      [] site = "demo_resources"    -> <<"get_resources", "demonstrate_api", "__main__">>
      [] site = "demo_prompts"      -> <<"get_prompts", "demonstrate_api", "__main__">>
      [] OTHER                      -> <<>>

\* what the function at a frame of the chain does with the exception
HandlerNoMain(site, fn) ==
    CASE fn = "main" /\ site = "main_health"                      -> "catch"
      [] fn = "get_all_servers"                                   -> "catch"
      [] fn = "get_server_tools"                                  -> "catch"
      [] fn = "execute_tool" /\ site = "execute_tool"             -> "catch"
      [] fn = "confirm_operation"                                 -> "catch"
      [] fn = "_test_connection"                                  -> "reraise"
      [] fn = "demonstrate_api" /\ site \in {"demo_tools", "demo_exec",
                                   "demo_resources", "demo_prompts"} -> "catch"
      [] OTHER                                                    -> "none"

Handler(site, fn) ==
    CASE fn = "main" /\ site = "main_health"                      -> "catch"
      [] fn = "get_all_servers"                                   -> "catch"
      [] fn = "get_server_tools"                                  -> "catch"
      [] fn = "execute_tool" /\ site = "execute_tool"             -> "catch"
      [] fn = "confirm_operation"                                 -> "catch"
      [] fn = "_test_connection"                                  -> "reraise"
      [] fn = "demonstrate_api" /\ site \in {"demo_tools", "demo_exec",
                                   "demo_resources", "demo_prompts"} -> "catch"
      [] fn = "__main__"                                          -> "catch"
      [] OTHER                                                    -> "none"

CurFn == Chain(exc.site)[exc.frame]

\* the except block of function fn is entered for the exception of site
Catches(site, fn) ==
    /\ exc # NoExc
    /\ exc.site = site
    /\ CurFn = fn
    /\ Handler(site, fn) = "catch"

\* requests' raise_for_status / connection error at a request site
Raise(site, kind) == exc' = [site |-> site, frame |-> 1, kind |-> kind]

\* the exception leaves a function that does not catch it (or re-raises it)
Propagate ==
    /\ exc # NoExc
    /\ Handler(exc.site, CurFn) \in {"none", "reraise"}
    /\ IF exc.frame < Len(Chain(exc.site))
         THEN exc' = [exc EXCEPT !.frame = @ + 1] /\ pc' = pc
         ELSE exc' = exc /\ pc' = "crashed_http"
    /\ pc # "crashed_http"
    /\ UNCHANGED <<fnVars, bounded, script, inflight, failed, servers, agentVars, demoVars>>

-----------------------------------------------------------------------------
(* HTTP: a request is sent, then it returns a response or raises *)

Send(r) == inflight' = inflight \cup {r}

Returns(r) == r \in inflight /\ inflight' = inflight \ {r}

Fails(r) ==
    /\ r \in inflight
    /\ inflight' = inflight \ {r}
    /\ failed' = IF bounded THEN failed \cup {[req |-> r, llm |-> llmSeq]} ELSE failed

\* counters stop at MaxLLM + 1, a value no bounded run reaches
Inc(n) == IF n <= MaxLLM THEN n + 1 ELSE n

-----------------------------------------------------------------------------
(* llm_test.py: the Gemini agent *)

EmptyDict == [kind |-> "empty"]

\* processed_response.get("tool_call") or {}
OrEmpty(tc) == IF tc.kind = "null" THEN EmptyDict ELSE tc

\* any() instead of all() in the loop condition
CompleteAny(tc) ==
    /\ tc.kind = "obj"
    /\ \/ tc.server_id # NULL
       \/ tc.tool_name # NULL
       \/ tc.parameters # NULL

\* tool_call and all(tool_call.get(k) is not None for k in [...]), line 484
Complete(tc) ==
    /\ tc.kind = "obj"
    /\ tc.server_id # NULL
    /\ tc.tool_name # NULL
    /\ tc.parameters # NULL

ToolReq(tc) == Req("POST", <<"servers", tc.server_id, "tools", tc.tool_name>>, tc.parameters)

ConfirmReq(cid, confirm) == Req("POST", <<"confirmations", cid>>, confirm)

\* a requests.Response is truthy when its status is below 400
ResponseTruthy(kind) == kind \notin {"conn", "http_json", "http_text"}

\* error_message built by the except blocks of execute_tool / confirm_operation
ErrorMessage(kind) ==
    IF ResponseTruthy(kind) /\ kind = "http_json" THEN "detail" ELSE "generic"

NeedsConfirmationTruthy(res, err) ==
    err = "None" /\ res.isDict /\ res.rc \in {"true", "truthy"}

\* main, line 501
NeedsConfirmation(res, err) ==
    err = "None" /\ res.isDict /\ res.rc = "true"

\* the execution is reported by its result: failed when there is none
FeedbackKindByResult(res, err) ==
    IF res = PyNone THEN "failed"
    ELSE IF res.isDict /\ res.status = "rejected" THEN "cancelled"
    ELSE "success"

\* main, lines 506-527
FeedbackKind(res, err) ==
    IF err # "None" THEN "failed"
    ELSE IF res.isDict /\ res.status = "rejected" THEN "cancelled"
    ELSE "success"

AgentStep(from, to) == script = "agent" /\ pc = from /\ exc = NoExc /\ pc' = to

main_health_send ==
    /\ AgentStep("a_health", "a_health_wait")
    /\ Send(Req("GET", <<"health">>, NULL))
    /\ UNCHANGED <<fnVars, bounded, script, failed, exc, servers, agentVars, demoVars>>

main_health_ok ==
    /\ AgentStep("a_health_wait", "a_gemini")
    /\ Returns(Req("GET", <<"health">>, NULL))
    /\ UNCHANGED <<fnVars, bounded, script, failed, exc, servers, agentVars, demoVars>>

main_health_fail ==
    /\ script = "agent" /\ pc = "a_health_wait" /\ exc = NoExc
    /\ Fails(Req("GET", <<"health">>, NULL))
    /\ \E k \in FailKinds : Raise("main_health", k)
    /\ UNCHANGED <<fnVars, bounded, script, pc, servers, agentVars, demoVars>>

main_health_except ==
    /\ script = "agent"
    /\ Catches("main_health", "main")
    /\ exc' = NoExc
    /\ pc' = "done"
    /\ UNCHANGED <<fnVars, bounded, script, inflight, failed, servers, agentVars, demoVars>>

\* setup_gemini without the test of GEMINI_API_KEY
setup_gemini_unchecked ==
    /\ script = "agent" /\ pc = "a_gemini" /\ exc = NoExc
    /\ pc' = "a_servers"
    /\ UNCHANGED <<fnVars, bounded, script, inflight, failed, exc, servers, agentVars, demoVars>>

setup_gemini ==
    /\ script = "agent" /\ pc = "a_gemini" /\ exc = NoExc
    /\ pc' = IF gemini_key THEN "a_servers" ELSE "done"
    /\ UNCHANGED <<fnVars, bounded, script, inflight, failed, exc, servers, agentVars, demoVars>>

get_all_servers_send ==
    /\ AgentStep("a_servers", "a_servers_wait")
    /\ Send(Req("GET", <<"servers">>, NULL))
    /\ UNCHANGED <<fnVars, bounded, script, failed, exc, servers, agentVars, demoVars>>

get_all_servers_ok ==
    /\ AgentStep("a_servers_wait", "a_tools_loop")
    /\ Returns(Req("GET", <<"servers">>, NULL))
    /\ \E l \in ServerLists : servers' = l
    /\ sidx' = 1
    /\ all_tools' = <<>>
    /\ UNCHANGED <<fnVars, bounded, script, failed, exc, gemini_key, llmSeq, processed_response, tool_call, result,
                   error, execResult, execN, fbN, tool_feedback, promptsThisExec,
                   confirmed, confirms, answers, demoVars>>

get_all_servers_fail ==
    /\ script = "agent" /\ pc = "a_servers_wait" /\ exc = NoExc
    /\ Fails(Req("GET", <<"servers">>, NULL))
    /\ \E k \in FailKinds : Raise("get_all_servers", k)
    /\ UNCHANGED <<fnVars, bounded, script, pc, servers, agentVars, demoVars>>

get_all_servers_except ==
    /\ script = "agent"
    /\ Catches("get_all_servers", "get_all_servers")
    /\ exc' = NoExc
    /\ servers' = <<>>
    /\ sidx' = 1
    /\ all_tools' = <<>>
    /\ pc' = "a_tools_loop"
    /\ UNCHANGED <<fnVars, bounded, script, inflight, failed, gemini_key, llmSeq, processed_response, tool_call, result,
                   error, execResult, execN, fbN, tool_feedback, promptsThisExec,
                   confirmed, confirms, answers, demoVars>>

ToolsReq(id) == Req("GET", <<"servers", id, "tools">>, NULL)

\* all_tools[server_id] = tools
SetTools(id, t) == all_tools' = Append(all_tools, [id |-> id, tools |-> t])

\* the requests of all servers are sent without waiting for the answers
get_server_tools_send_async ==
    /\ script = "agent" /\ pc = "a_tools_loop" /\ exc = NoExc
    /\ sidx <= Len(servers)
    /\ Send(ToolsReq(servers[sidx]))
    /\ pc' = IF sidx < Len(servers) THEN "a_tools_loop" ELSE "a_tools_wait"
    /\ sidx' = IF sidx < Len(servers) THEN sidx + 1 ELSE sidx
    /\ UNCHANGED <<fnVars, bounded, script, failed, exc, servers, gemini_key, all_tools, llmSeq, processed_response,
                   tool_call, result, error, execResult, execN, fbN, tool_feedback,
                   promptsThisExec, confirmed, confirms, answers, demoVars>>

get_server_tools_send ==
    /\ AgentStep("a_tools_loop", "a_tools_wait")
    /\ sidx <= Len(servers)
    /\ Send(ToolsReq(servers[sidx]))
    /\ UNCHANGED <<fnVars, bounded, script, failed, exc, servers, agentVars, demoVars>>

get_server_tools_ok ==
    /\ AgentStep("a_tools_wait", "a_tools_loop")
    /\ Returns(ToolsReq(servers[sidx]))
    /\ \E t \in {"none", "some"} : SetTools(servers[sidx], t)
    /\ sidx' = sidx + 1
    /\ UNCHANGED <<fnVars, bounded, script, failed, exc, servers, gemini_key, llmSeq, processed_response, tool_call,
                   result, error, execResult, execN, fbN, tool_feedback,
                   promptsThisExec, confirmed, confirms, answers, demoVars>>

get_server_tools_fail ==
    /\ script = "agent" /\ pc = "a_tools_wait" /\ exc = NoExc
    /\ Fails(ToolsReq(servers[sidx]))
    /\ \E k \in FailKinds : Raise("get_server_tools", k)
    /\ UNCHANGED <<fnVars, bounded, script, pc, servers, agentVars, demoVars>>

\* a server whose tools request failed gets no entry
get_server_tools_except_skip ==
    /\ script = "agent"
    /\ Catches("get_server_tools", "get_server_tools")
    /\ exc' = NoExc
    /\ sidx' = sidx + 1
    /\ pc' = "a_tools_loop"
    /\ UNCHANGED <<fnVars, bounded, script, inflight, failed, servers, gemini_key, all_tools,
                   llmSeq, processed_response, tool_call,
                   result, error, execResult, execN, fbN, tool_feedback,
                   promptsThisExec, confirmed, confirms, answers, demoVars>>

get_server_tools_except ==
    /\ script = "agent"
    /\ Catches("get_server_tools", "get_server_tools")
    /\ exc' = NoExc
    /\ SetTools(servers[sidx], "none")
    /\ sidx' = sidx + 1
    /\ pc' = "a_tools_loop"
    /\ UNCHANGED <<fnVars, bounded, script, inflight, failed, servers, gemini_key, llmSeq, processed_response, tool_call,
                   result, error, execResult, execN, fbN, tool_feedback,
                   promptsThisExec, confirmed, confirms, answers, demoVars>>

\* get_all_tools returns all_tools to main, which prints the warning when
\* the dict is empty and the number of servers otherwise (lines 447-451)
get_all_tools_return ==
    /\ AgentStep("a_tools_loop", "a_chat_start")
    /\ sidx > Len(servers)
    /\ out' = [t |-> "printed",
               msg |-> IF all_tools = <<>> THEN "No tools found" ELSE "Found tools"]
    /\ UNCHANGED <<text, parsed, payload, spaced, http_body, returned, args, files, bounded,
                   script, inflight, failed, exc, servers, agentVars, demoVars>>

\* chat.send_message(system_instruction): the answer is not processed
chat_start ==
    /\ AgentStep("a_chat_start", "a_input")
    /\ UNCHANGED <<fnVars, bounded, script, inflight, failed, exc, servers, agentVars, demoVars>>

user_exit ==
    /\ AgentStep("a_input", "done")
    /\ UNCHANGED <<fnVars, bounded, script, inflight, failed, exc, servers, agentVars, demoVars>>

\* input, chat.send_message(user_input), process_llm_response, lines 466-481
user_message ==
    /\ AgentStep("a_input", "a_loop")
    /\ bounded => llmSeq < MaxLLM
    /\ \E tc \in ToolCalls :
         /\ processed_response' = tc
         /\ tool_call' = OrEmpty(tc)
    /\ llmSeq' = Inc(llmSeq)
    /\ UNCHANGED <<fnVars, bounded, script, inflight, failed, exc, servers, gemini_key, sidx,
                   all_tools, result, error, execResult, execN, fbN, tool_feedback,
                   promptsThisExec, confirmed, confirms, answers, demoVars>>

\* the while condition of line 484
tool_loop_check ==
    /\ script = "agent" /\ pc = "a_loop" /\ exc = NoExc
    /\ pc' = IF tool_call.kind = "nondict" THEN "crashed_attr"
             ELSE IF Complete(tool_call) THEN "a_exec"
             ELSE "a_separator"
    /\ UNCHANGED <<fnVars, bounded, script, inflight, failed, exc, servers, agentVars, demoVars>>

print_separator ==
    /\ AgentStep("a_separator", "a_input")
    /\ UNCHANGED <<fnVars, bounded, script, inflight, failed, exc, servers, agentVars, demoVars>>

\* execute_tool, line 269: the request is sent
execute_tool_send ==
    /\ AgentStep("a_exec", "a_exec_wait")
    /\ Send(ToolReq(tool_call))
    /\ execN' = Inc(execN)
    /\ promptsThisExec' = 0
    /\ UNCHANGED <<fnVars, bounded, script, failed, exc, servers, gemini_key, sidx, all_tools,
                   llmSeq, processed_response, tool_call, result, error, execResult, fbN,
                   tool_feedback, confirmed, confirms, answers, demoVars>>

execute_tool_ok ==
    /\ AgentStep("a_exec_wait", "a_check")
    /\ Returns(ToolReq(tool_call))
    /\ \E r \in ToolResults :
         /\ result' = r
         /\ execResult' = [result |-> r, error |-> "None"]
    /\ error' = "None"
    /\ UNCHANGED <<fnVars, bounded, script, failed, exc, servers, gemini_key, sidx, all_tools,
                   llmSeq, processed_response, tool_call, execN, fbN, tool_feedback, promptsThisExec,
                   confirmed, confirms, answers, demoVars>>

execute_tool_fail ==
    /\ script = "agent" /\ pc = "a_exec_wait" /\ exc = NoExc
    /\ Fails(ToolReq(tool_call))
    /\ \E k \in FailKinds : Raise("execute_tool", k)
    /\ UNCHANGED <<fnVars, bounded, script, pc, servers, agentVars, demoVars>>

\* the request is sent again from the except block
execute_tool_except_retry ==
    /\ script = "agent"
    /\ Catches("execute_tool", "execute_tool")
    /\ exc' = NoExc
    /\ Send(ToolReq(tool_call))
    /\ UNCHANGED <<fnVars, bounded, script, pc, failed, servers, agentVars, demoVars>>

execute_tool_except ==
    /\ script = "agent"
    /\ Catches("execute_tool", "execute_tool")
    /\ exc' = NoExc
    /\ result' = PyNone
    /\ error' = ErrorMessage(exc.kind)
    /\ execResult' = [result |-> PyNone, error |-> ErrorMessage(exc.kind)]
    /\ pc' = "a_check"
    /\ UNCHANGED <<fnVars, bounded, script, inflight, failed, servers, gemini_key, sidx, all_tools,
                   llmSeq, processed_response, tool_call, execN, fbN, tool_feedback, promptsThisExec,
                   confirmed, confirms, answers, demoVars>>

\* main, lines 500-504
check_confirmation ==
    /\ script = "agent" /\ pc = "a_check" /\ exc = NoExc
    /\ pc' = IF NeedsConfirmation(result, error) THEN "a_confirm_ask" ELSE "a_report"
    /\ UNCHANGED <<fnVars, bounded, script, inflight, failed, exc, servers, agentVars, demoVars>>

\* confirm_operation, lines 284-296: the panel and Confirm.ask
confirm_operation_ask ==
    /\ AgentStep("a_confirm_ask", "a_confirm_send")
    /\ \E a \in BOOLEAN :
         /\ confirmed' = a
         /\ answers' = IF bounded
                         THEN answers \cup {[exec |-> execN, cid |-> result.cid, answer |-> a]}
                         ELSE answers
    /\ promptsThisExec' = promptsThisExec + 1
    /\ UNCHANGED <<fnVars, bounded, script, inflight, failed, exc, servers, gemini_key, sidx,
                   all_tools, llmSeq, processed_response, tool_call, result, error, execResult, execN,
                   fbN, tool_feedback, confirms, demoVars>>

\* the body of the confirmation request does not depend on the answer
ConfirmBodyAlways(a) == TRUE

\* json={"confirm": True} in the if branch, {"confirm": False} in the else branch
ConfirmBody(a) == a

confirm_operation_send ==
    /\ AgentStep("a_confirm_send", "a_confirm_wait")
    /\ Send(ConfirmReq(result.cid, ConfirmBody(confirmed)))
    /\ confirms' = IF bounded
                     THEN confirms \cup
                            {[exec |-> execN, cid |-> result.cid,
                              confirm |-> ConfirmBody(confirmed),
                              k |-> Cardinality({c \in confirms : c.exec = execN}) + 1]}
                     ELSE confirms
    /\ UNCHANGED <<fnVars, bounded, script, failed, exc, servers, gemini_key, sidx, all_tools,
                   llmSeq, processed_response, tool_call, result, error, execResult, execN, fbN,
                   tool_feedback, promptsThisExec, confirmed, answers, demoVars>>

SentConfirm == CHOOSE r \in inflight : r.path[1] = "confirmations"

confirm_operation_ok ==
    /\ AgentStep("a_confirm_wait", "a_report")
    /\ \E r \in inflight : r.path[1] = "confirmations"
    /\ Returns(SentConfirm)
    /\ IF confirmed
         THEN \E r \in ToolResults : result' = r
         ELSE result' = RejectedByUser
    /\ error' = "None"
    /\ UNCHANGED <<fnVars, bounded, script, failed, exc, servers, gemini_key, sidx, all_tools,
                   llmSeq, processed_response, tool_call, execResult, execN, fbN, tool_feedback,
                   promptsThisExec, confirmed, confirms, answers, demoVars>>

confirm_operation_fail ==
    /\ script = "agent" /\ pc = "a_confirm_wait" /\ exc = NoExc
    /\ \E r \in inflight : r.path[1] = "confirmations"
    /\ Fails(SentConfirm)
    /\ \E k \in FailKinds : Raise("confirm_operation", k)
    /\ UNCHANGED <<fnVars, bounded, script, pc, servers, agentVars, demoVars>>

\* the except block of the else branch returns the error like the if branch
confirm_operation_except_error ==
    /\ script = "agent"
    /\ Catches("confirm_operation", "confirm_operation")
    /\ exc' = NoExc
    /\ result' = PyNone /\ error' = ErrorMessage(exc.kind)
    /\ pc' = "a_report"
    /\ UNCHANGED <<fnVars, bounded, script, inflight, failed, servers, gemini_key, sidx, all_tools,
                   llmSeq, processed_response, tool_call, execResult, execN, fbN, tool_feedback,
                   promptsThisExec, confirmed, confirms, answers, demoVars>>

confirm_operation_except ==
    /\ script = "agent"
    /\ Catches("confirm_operation", "confirm_operation")
    /\ exc' = NoExc
    /\ IF confirmed
         THEN result' = PyNone /\ error' = ErrorMessage(exc.kind)
         ELSE result' = RejectedByUser /\ error' = "None"
    /\ pc' = "a_report"
    /\ UNCHANGED <<fnVars, bounded, script, inflight, failed, servers, gemini_key, sidx, all_tools,
                   llmSeq, processed_response, tool_call, execResult, execN, fbN, tool_feedback,
                   promptsThisExec, confirmed, confirms, answers, demoVars>>

\* no feedback is sent for a failed execution
send_feedback_unless_error ==
    /\ AgentStep("a_report", "a_loop")
    /\ bounded => llmSeq < MaxLLM
    /\ IF error # "None"
         THEN UNCHANGED <<tool_feedback, fbN, llmSeq, processed_response, tool_call>>
         ELSE /\ tool_feedback' = FeedbackKind(result, error)
              /\ fbN' = Inc(fbN)
              /\ llmSeq' = Inc(llmSeq)
              /\ \E tc \in ToolCalls :
                   /\ processed_response' = tc
                   /\ tool_call' = OrEmpty(tc)
    /\ UNCHANGED <<fnVars, bounded, script, inflight, failed, exc, servers, gemini_key, sidx,
                   all_tools, result, error, execResult, execN, promptsThisExec,
                   confirmed, confirms, answers, demoVars>>

\* line 538 is missing: tool_call keeps the value of the previous response
send_feedback_stale ==
    /\ AgentStep("a_report", "a_loop")
    /\ bounded => llmSeq < MaxLLM
    /\ tool_feedback' = FeedbackKind(result, error)
    /\ fbN' = Inc(fbN)
    /\ llmSeq' = Inc(llmSeq)
    /\ \E tc \in ToolCalls : processed_response' = tc
    /\ UNCHANGED <<fnVars, bounded, script, inflight, failed, exc, servers, gemini_key, sidx,
                   all_tools, tool_call, result, error, execResult, execN,
                   promptsThisExec, confirmed, confirms, answers, demoVars>>

\* main, lines 506-538: the feedback is sent and the answer parsed
send_feedback ==
    /\ AgentStep("a_report", "a_loop")
    /\ bounded => llmSeq < MaxLLM
    /\ tool_feedback' = FeedbackKind(result, error)
    /\ fbN' = Inc(fbN)
    /\ llmSeq' = Inc(llmSeq)
    /\ \E tc \in ToolCalls :
         /\ processed_response' = tc
         /\ tool_call' = OrEmpty(tc)
    /\ UNCHANGED <<fnVars, bounded, script, inflight, failed, exc, servers, gemini_key, sidx,
                   all_tools, result, error, execResult, execN, promptsThisExec,
                   confirmed, confirms, answers, demoVars>>

-----------------------------------------------------------------------------
(* example_client.py: MCPBridgeClient and demonstrate_api *)

\* the tool executions of step 5, lines 189-236
DemoCalls == <<"add", "multiply", "power", "quadratic", "mean", "sin">>

IsMath(id) == id = "math"

\* lines 146-153: the first server with 'math' in its id, else the first server
DemoServer(l) ==
    IF \E i \in 1..Len(l) : IsMath(l[i])
      THEN l[CHOOSE i \in 1..Len(l) : IsMath(l[i]) /\ \A j \in 1..(i - 1) : ~IsMath(l[j])]
      ELSE l[1]

DemoReq(step) ==
    CASE step = "d_ctor"      -> Req("GET", <<"health">>, NULL)
      [] step = "d_health"    -> Req("GET", <<"health">>, NULL)
      [] step = "d_servers"   -> Req("GET", <<"servers">>, NULL)
      [] step = "d_tools"     -> Req("GET", <<"servers", DemoServer(servers), "tools">>, NULL)
      [] step = "d_exec"      -> Req("POST", <<"servers", DemoServer(servers), "tools",
                                              DemoCalls[dstep]>>, DemoCalls[dstep])
      [] step = "d_resources" -> Req("GET", <<"servers", DemoServer(servers), "resources">>, NULL)
      [] step = "d_prompts"   -> Req("GET", <<"servers", DemoServer(servers), "prompts">>, NULL)

DemoSite(step) ==
    CASE step = "d_ctor"      -> "ctor_health"
      [] step = "d_health"    -> "demo_health"
      [] step = "d_servers"   -> "demo_servers"
      [] step = "d_tools"     -> "demo_tools"
      [] step = "d_exec"      -> "demo_exec"
      [] step = "d_resources" -> "demo_resources"
      [] step = "d_prompts"   -> "demo_prompts"

DemoSteps == {"d_ctor", "d_health", "d_servers", "d_tools", "d_exec",
              "d_resources", "d_prompts"}

WaitPc(step) ==
    CASE step = "d_ctor"      -> "d_ctor_wait"
      [] step = "d_health"    -> "d_health_wait"
      [] step = "d_servers"   -> "d_servers_wait"
      [] step = "d_tools"     -> "d_tools_wait"
      [] step = "d_exec"      -> "d_exec_wait"
      [] step = "d_resources" -> "d_resources_wait"
      [] step = "d_prompts"   -> "d_prompts_wait"

\* position after the tool execution dstep, whether it succeeded or was caught
AfterExec == IF dstep < Len(DemoCalls) THEN "d_exec" ELSE "d_resources"

demo_send ==
    /\ script = "demo" /\ exc = NoExc
    /\ pc \in DemoSteps
    /\ Send(DemoReq(pc))
    /\ pc' = WaitPc(pc)
    /\ UNCHANGED <<fnVars, bounded, script, failed, exc, servers, agentVars, demoVars>>

Waiting(step) == script = "demo" /\ exc = NoExc /\ pc = WaitPc(step)

\* _test_connection reports the failure and returns instead of re-raising
demo_fail_swallowed ==
    /\ \E step \in DemoSteps :
         /\ Waiting(step)
         /\ Fails(DemoReq(step))
         /\ IF step = "d_ctor"
              THEN exc' = exc /\ pc' = "d_health" /\ client' = "bound"
              ELSE (\E k \in FailKinds : Raise(DemoSite(step), k)) /\ pc' = pc /\ client' = client
    /\ UNCHANGED <<fnVars, bounded, script, servers, agentVars, dstep, tools>>

demo_fail ==
    /\ \E step \in DemoSteps :
         /\ Waiting(step)
         /\ Fails(DemoReq(step))
         /\ \E k \in FailKinds : Raise(DemoSite(step), k)
    /\ UNCHANGED <<fnVars, bounded, script, pc, servers, agentVars, demoVars>>

\* __init__ / _test_connection, lines 19-25
ctor_health_ok ==
    /\ Waiting("d_ctor")
    /\ Returns(DemoReq("d_ctor"))
    /\ client' = "bound"
    /\ pc' = "d_health"
    /\ UNCHANGED <<fnVars, bounded, script, failed, exc, servers, agentVars, dstep, tools>>

\* demonstrate_api, lines 127-130
demo_health_ok ==
    /\ Waiting("d_health")
    /\ Returns(DemoReq("d_health"))
    /\ pc' = "d_servers"
    /\ UNCHANGED <<fnVars, bounded, script, failed, exc, servers, agentVars, demoVars>>

\* lines 134-143
demo_servers_ok ==
    /\ Waiting("d_servers")
    /\ Returns(DemoReq("d_servers"))
    /\ \E l \in ServerLists :
         /\ servers' = l
         /\ pc' = IF l = <<>> THEN "done" ELSE "d_tools"
    /\ UNCHANGED <<fnVars, bounded, script, failed, exc, agentVars, demoVars>>

\* lines 160-184
demo_tools_ok ==
    /\ Waiting("d_tools")
    /\ Returns(DemoReq("d_tools"))
    /\ \E t \in {"none", "some"} :
         /\ tools' = t
         /\ pc' = IF t = "some" THEN "d_exec" ELSE "d_resources"
    /\ dstep' = 1
    /\ UNCHANGED <<fnVars, bounded, script, failed, exc, servers, agentVars, client>>

demo_tools_except ==
    /\ script = "demo"
    /\ Catches("demo_tools", "demonstrate_api")
    /\ exc' = NoExc
    /\ pc' = "done"
    /\ UNCHANGED <<fnVars, bounded, script, inflight, failed, servers, agentVars, demoVars>>

\* one of the try blocks of lines 188-241
demo_exec_ok ==
    /\ Waiting("d_exec")
    /\ Returns(DemoReq("d_exec"))
    /\ pc' = AfterExec
    /\ dstep' = dstep + 1
    /\ UNCHANGED <<fnVars, bounded, script, failed, exc, servers, agentVars, tools, client>>

\* the except block of a tool execution returns, like that of the tools listing
demo_exec_except_return ==
    /\ script = "demo"
    /\ Catches("demo_exec", "demonstrate_api")
    /\ exc' = NoExc
    /\ pc' = "done"
    /\ UNCHANGED <<fnVars, bounded, script, inflight, failed, servers, agentVars, demoVars>>

demo_exec_except ==
    /\ script = "demo"
    /\ Catches("demo_exec", "demonstrate_api")
    /\ exc' = NoExc
    /\ pc' = AfterExec
    /\ dstep' = dstep + 1
    /\ UNCHANGED <<fnVars, bounded, script, inflight, failed, servers, agentVars, tools, client>>

\* lines 245-254
demo_resources_ok ==
    /\ Waiting("d_resources")
    /\ Returns(DemoReq("d_resources"))
    /\ pc' = "d_prompts"
    /\ UNCHANGED <<fnVars, bounded, script, failed, exc, servers, agentVars, demoVars>>

demo_resources_except ==
    /\ script = "demo"
    /\ Catches("demo_resources", "demonstrate_api")
    /\ exc' = NoExc
    /\ pc' = "d_prompts"
    /\ UNCHANGED <<fnVars, bounded, script, inflight, failed, servers, agentVars, demoVars>>

\* lines 258-273: the prompts are listed, then the closing lines are printed
demo_prompts_ok ==
    /\ Waiting("d_prompts")
    /\ Returns(DemoReq("d_prompts"))
    /\ pc' = "done"
    /\ out' = [t |-> "printed", msg |-> "All operations tested successfully"]
    /\ UNCHANGED <<text, parsed, payload, spaced, http_body, returned, args, files, bounded,
                   script, failed, exc, servers, agentVars, demoVars>>

demo_prompts_except ==
    /\ script = "demo"
    /\ Catches("demo_prompts", "demonstrate_api")
    /\ exc' = NoExc
    /\ pc' = "done"
    /\ out' = [t |-> "printed", msg |-> "All operations tested successfully"]
    /\ UNCHANGED <<text, parsed, payload, spaced, http_body, returned, args, files, bounded,
                   script, inflight, failed, servers, agentVars, demoVars>>

\* the except Exception of the __main__ block, lines 280-282
dunder_main_except ==
    /\ script = "demo"
    /\ exc # NoExc
    /\ Catches(exc.site, "__main__")
    /\ exc' = NoExc
    /\ pc' = "done"
    /\ UNCHANGED <<fnVars, bounded, script, inflight, failed, servers, agentVars, demoVars>>

-----------------------------------------------------------------------------
(* llm_test.py: process_llm_response                                       *)
(*                                                                         *)
(* A text is a sequence of tokens: "{" and "}", "F" for a code fence, "j"  *)
(* for the word json, "T" for the key "tool_call" with its colon, "R" for  *)
(* the key "response", "k" for any other key, "1" for a number, "w" for a  *)
(* word and " " for white space.                                           *)

KeyTokens == {"T", "R", "k"}

\* JSON values: a tagged record; a string value holds its text
JNull == [t |-> "null"]

JBool(b) == [t |-> "bool", b |-> b]

JNum(n) == [t |-> "num", n |-> n]

JStr(s) == [t |-> "str", s |-> s]

JList(items) == [t |-> "list", items |-> items]

JObj(members) == [t |-> "obj", m |-> members]

JHas(v, key) == v.t = "obj" /\ \E i \in 1..Len(v.m) : v.m[i].k = key

JGet(v, key) == v.m[CHOOSE i \in 1..Len(v.m) : v.m[i].k = key].v

NotReturned == [t |-> "not returned"]

Raised(kind) == [t |-> "raised", kind |-> kind]

\* bool(v)
JTruthy(v) ==
    CASE v.t = "null" -> FALSE
      [] v.t = "bool" -> v.b
      [] v.t = "num"  -> v.n # 0
      [] v.t = "str"  -> v.s # <<>>
      [] v.t = "list" -> v.items # <<>>
      [] v.t = "obj"  -> v.m # <<>>

NotCalled == [data |-> JNull, tool_call |-> JNull, response |-> [text |-> <<"?">>],
              strategy |-> -1]

\* s[i:] starts with sep
StartsAt(s, sep, i) ==
    /\ i + Len(sep) - 1 <= Len(s)
    /\ SubSeq(s, i, i + Len(sep) - 1) = sep

\* str.find, 1-based, 0 when sep does not occur
Find(s, sep) ==
    IF \E i \in 1..Len(s) : StartsAt(s, sep, i)
      THEN CHOOSE i \in 1..Len(s) :
             StartsAt(s, sep, i) /\ \A j \in 1..(i - 1) : ~StartsAt(s, sep, j)
      ELSE 0

\* str.rfind, 1-based, 0 when sep does not occur
RFind(s, sep) ==
    IF \E i \in 1..Len(s) : StartsAt(s, sep, i)
      THEN CHOOSE i \in 1..Len(s) :
             StartsAt(s, sep, i) /\ \A j \in (i + 1)..Len(s) : ~StartsAt(s, sep, j)
      ELSE 0

RECURSIVE Split(_, _)
\* str.split(sep)
Split(s, sep) ==
    LET i == Find(s, sep) IN
      IF i = 0 THEN <<s>>
      ELSE <<SubSeq(s, 1, i - 1)>> \o Split(SubSeq(s, i + Len(sep), Len(s)), sep)

\* str.strip()
Strip(s) ==
    LET inked == {i \in 1..Len(s) : s[i] # " "} IN
      IF inked = {} THEN <<>>
      ELSE SubSeq(s, CHOOSE a \in inked : \A b \in inked : a <= b,
                     CHOOSE a \in inked : \A b \in inked : a >= b)

RECURSIVE Squeeze(_)
\* runs of white space become one space
Squeeze(s) ==
    IF Len(s) <= 1 THEN s
    ELSE IF s[1] = " " /\ s[2] = " " THEN Squeeze(Tail(s))
    ELSE <<s[1]>> \o Squeeze(Tail(s))

\* ' '.join(json_text.split())
JoinSplit(s) == Squeeze(Strip(s))

ParseFail == [ok |-> FALSE, v |-> JNull, next |-> 0]

RECURSIVE ParseValue(_, _)
\* the JSON value that starts at token i of s (s holds no white space)
ParseValue(s, i) ==
    IF i > Len(s) THEN ParseFail
    ELSE IF s[i] = "1" THEN [ok |-> TRUE, v |-> JNum(1), next |-> i + 1]
    ELSE IF s[i] # "{" \/ i + 1 > Len(s) THEN ParseFail
    ELSE IF s[i + 1] = "}" THEN [ok |-> TRUE, v |-> JObj(<<>>), next |-> i + 2]
    ELSE IF s[i + 1] \notin KeyTokens THEN ParseFail
    ELSE LET inner == ParseValue(s, i + 2) IN
           IF inner.ok /\ inner.next <= Len(s) /\ s[inner.next] = "}"
             THEN [ok |-> TRUE, v |-> JObj(<<[k |-> s[i + 1], v |-> inner.v]>>),
                   next |-> inner.next + 1]
             ELSE ParseFail

\* json.loads: the value, or ParseFail for a JSONDecodeError
json_loads(s) ==
    LET t == SelectSeq(s, LAMBDA c : c # " ")
        r == ParseValue(t, 1)
    IN IF r.ok /\ r.next = Len(t) + 1 THEN r ELSE ParseFail

\* clean_and_parse_json, lines 327-335: the value or None
clean_and_parse_json(json_text) == json_loads(JoinSplit(json_text)).v

\* response_data and isinstance(response_data, dict)
Accepted(v) == JTruthy(v) /\ v.t = "obj"

\* the two 'not in response_data' defaults and the return
WithDefaults(data, non_json_text, n) ==
    [data |-> data,
     tool_call |-> IF JHas(data, "T") THEN JGet(data, "T") ELSE JNull,
     response |-> IF JHas(data, "R") THEN [json |-> JGet(data, "R")]
                  ELSE [text |-> non_json_text],
     strategy |-> n]

\* lines 340-354: the JSON block at the end of the response
TrailingBlock(txt) ==
    LET parts == Split(txt, <<"{">>)
        potential_json == <<"{">> \o Strip(parts[Len(parts)])
        response_data == clean_and_parse_json(potential_json)
    IN IF Len(parts) > 1 /\ Accepted(response_data)
         THEN [hit |-> TRUE, r |-> WithDefaults(response_data,
                               Strip(SubSeq(txt, 1, RFind(txt, <<"{">>) - 1)), 1)]
         ELSE [hit |-> FALSE]

\* lines 357-369: the first fence that is followed by json
JsonFence(txt) ==
    LET parts == Split(txt, <<"F", "j">>)
        json_block == Strip(Split(parts[2], <<"F">>)[1])
        response_data == clean_and_parse_json(json_block)
    IN IF Find(txt, <<"F", "j">>) # 0 /\ Accepted(response_data)
         THEN [hit |-> TRUE, r |-> WithDefaults(response_data,
                               Strip(SubSeq(txt, 1, Find(txt, <<"F", "j">>) - 1)), 2)]
         ELSE [hit |-> FALSE]

\* lines 372-384: the first fence-delimited segment that holds a JSON object
AnyFence(txt) ==
    LET parts == Split(txt, <<"F">>)
        good == {i \in 1..Len(parts) :
                   Strip(parts[i]) # <<>> /\ Accepted(clean_and_parse_json(Strip(parts[i])))}
    IN IF Find(txt, <<"F">>) # 0 /\ good # {}
         THEN [hit |-> TRUE, r |-> WithDefaults(
                    clean_and_parse_json(Strip(parts[CHOOSE i \in good : \A j \in good : i <= j])),
                    Strip(SubSeq(txt, 1, Find(txt, <<"F">>) - 1)), 3)]
         ELSE [hit |-> FALSE]

\* lines 387-400: from the first "{" to the last "}"
BraceSpan(txt) ==
    LET start == Find(txt, <<"{">>)
        end == RFind(txt, <<"}">>)
        response_data == clean_and_parse_json(SubSeq(txt, start, end))
    IN IF start # 0 /\ end # 0 /\ start <= end /\ Accepted(response_data)
         THEN [hit |-> TRUE, r |-> WithDefaults(response_data,
                               Strip(SubSeq(txt, 1, start - 1) \o
                                     SubSeq(txt, end + 1, Len(txt))), 4)]
         ELSE [hit |-> FALSE]

\* the fallback with the text as it is
WholeTextUnstripped(txt) ==
    [data |-> JNull, tool_call |-> JNull, response |-> [text |-> txt], strategy |-> 0]

\* lines 403-406
WholeText(txt) ==
    [data |-> JNull, tool_call |-> JNull, response |-> [text |-> Strip(txt)],
     strategy |-> 0]

\* process_llm_response for a string
ProcessLLMResponse(txt) ==
    IF TrailingBlock(txt).hit THEN TrailingBlock(txt).r
    ELSE IF JsonFence(txt).hit THEN JsonFence(txt).r
    ELSE IF AnyFence(txt).hit THEN AnyFence(txt).r
    ELSE IF BraceSpan(txt).hit THEN BraceSpan(txt).r
    ELSE WholeText(txt)

\* args says whether the argument is the string text or is a value that is
\* not a string: text.split then raises AttributeError into the except
\* block of lines 408-414, whose text.strip() raises again for a truthy value
process_llm_response ==
    /\ script = "process_llm_response"
    /\ pc = "p_call"
    /\ parsed' = IF args.t = "str" THEN ProcessLLMResponse(text)
                 ELSE IF JTruthy(args) THEN Raised("AttributeError")
                 ELSE [data |-> JNull, tool_call |-> JNull,
                       response |-> [text |-> <<"w", " ", "w">>], strategy |-> 5]
    /\ pc' = "p_done"
    /\ UNCHANGED <<text, payload, spaced, http_body, returned, args, out, files, bounded, script, inflight, failed, exc, servers,
                   agentVars, demoVars>>

-----------------------------------------------------------------------------
(* access-bridge/basic_example.py, advanced_example.py: call_mcp_tool, and *)
(* the unwrapping in example_client.py: demonstrate_api                    *)
(*                                                                         *)
(* A JSON text is a sequence of characters; the text of a string value is *)
(* the sequence of its characters.                                         *)

K_content == <<"c", "o", "n", "t", "e", "n", "t">>

K_text == <<"t", "e", "x", "t">>

K_result == <<"r", "e", "s", "u", "l", "t">>

K_error == <<"e", "r", "r", "o", "r">>

DigitChars == <<"0", "1", "2", "3", "4", "5", "6", "7", "8", "9">>

IsDigit(c) == \E d \in 1..10 : DigitChars[d] = c

DigitOf(c) == (CHOOSE d \in 1..10 : DigitChars[d] = c) - 1

WhiteSpace == {" ", "\n"}

RECURSIVE NatChars(_)
NatChars(n) ==
    IF n < 10 THEN <<DigitChars[n + 1]>>
    ELSE NatChars(n \div 10) \o <<DigitChars[(n % 10) + 1]>>

\* a string's characters between the quotes
EscapeChar(c) ==
    CASE c = "\"" -> <<"\\", "\"">>
      [] c = "\\" -> <<"\\", "\\">>
      [] c = "\n" -> <<"\\", "n">>
      [] OTHER    -> <<c>>

RECURSIVE EscapeChars(_)
EscapeChars(s) == IF s = <<>> THEN <<>> ELSE EscapeChar(Head(s)) \o EscapeChars(Tail(s))

RECURSIVE JsonEncode(_, _)
RECURSIVE EncodeItems(_, _)
RECURSIVE EncodeMembers(_, _)
\* the bridge's JSON text of a value; sp puts a space after , and :
JsonEncode(v, sp) ==
    CASE v.t = "null" -> <<"n", "u", "l", "l">>
      [] v.t = "bool" -> IF v.b THEN <<"t", "r", "u", "e">> ELSE <<"f", "a", "l", "s", "e">>
      [] v.t = "num"  -> IF v.n < 0 THEN <<"-">> \o NatChars(0 - v.n) ELSE NatChars(v.n)
      [] v.t = "str"  -> <<"\"">> \o EscapeChars(v.s) \o <<"\"">>
      [] v.t = "list" -> <<"[">> \o EncodeItems(v.items, sp) \o <<"]">>
      [] v.t = "obj"  -> <<"{">> \o EncodeMembers(v.m, sp) \o <<"}">>

EncodeItems(items, sp) ==
    IF items = <<>> THEN <<>>
    ELSE JsonEncode(Head(items), sp) \o
         (IF Len(items) = 1 THEN <<>>
          ELSE <<",">> \o (IF sp THEN <<" ">> ELSE <<>>) \o
               EncodeItems(Tail(items), sp))

EncodeMembers(members, sp) ==
    IF members = <<>> THEN <<>>
    ELSE <<"\"">> \o EscapeChars(Head(members).k) \o <<"\"", ":">> \o
         (IF sp THEN <<" ">> ELSE <<>>) \o JsonEncode(Head(members).v, sp) \o
         (IF Len(members) = 1 THEN <<>>
          ELSE <<",">> \o (IF sp THEN <<" ">> ELSE <<>>) \o
               EncodeMembers(Tail(members), sp))

DecodeFail == [ok |-> FALSE, v |-> JNull, next |-> 0]

Decoded(v, next) == [ok |-> TRUE, v |-> v, next |-> next]

RECURSIVE SkipWs(_, _)
SkipWs(s, i) == IF i <= Len(s) /\ s[i] \in WhiteSpace THEN SkipWs(s, i + 1) ELSE i

Literal(s, i, word, v) ==
    IF StartsAt(s, word, i) THEN Decoded(v, i + Len(word)) ELSE DecodeFail

RECURSIVE ScanDigits(_, _, _)
ScanDigits(s, i, acc) ==
    IF i <= Len(s) /\ IsDigit(s[i]) THEN ScanDigits(s, i + 1, acc * 10 + DigitOf(s[i]))
    ELSE Decoded(JNum(acc), i)

\* an integer: no leading zeros
ScanNat(s, i) ==
    IF i > Len(s) \/ ~IsDigit(s[i]) THEN DecodeFail
    ELSE IF s[i] = "0" THEN Decoded(JNum(0), i + 1)
    ELSE ScanDigits(s, i, 0)

ScanNumber(s, i) ==
    IF s[i] = "-"
      THEN LET r == ScanNat(s, i + 1) IN
             IF r.ok THEN Decoded(JNum(0 - r.v.n), r.next) ELSE DecodeFail
      ELSE ScanNat(s, i)

RECURSIVE ScanString(_, _, _)
\* the characters after an opening quote, up to the closing one
ScanString(s, i, acc) ==
    IF i > Len(s) THEN DecodeFail
    ELSE IF s[i] = "\"" THEN Decoded(JStr(acc), i + 1)
    ELSE IF s[i] = "\n" THEN DecodeFail
    ELSE IF s[i] # "\\" THEN ScanString(s, i + 1, Append(acc, s[i]))
    ELSE IF i + 1 > Len(s) THEN DecodeFail
    ELSE IF s[i + 1] \in {"\"", "\\", "/"} THEN ScanString(s, i + 2, Append(acc, s[i + 1]))
    ELSE IF s[i + 1] = "n" THEN ScanString(s, i + 2, Append(acc, "\n"))
    ELSE DecodeFail

RECURSIVE ScanValue(_, _)
RECURSIVE ScanItems(_, _, _)
RECURSIVE ScanMembers(_, _, _)
\* the JSON value that starts at character i of s
ScanValue(s, i) ==
    IF i > Len(s) THEN DecodeFail
    ELSE CASE s[i] = "n" -> Literal(s, i, <<"n", "u", "l", "l">>, JNull)
           [] s[i] = "t" -> Literal(s, i, <<"t", "r", "u", "e">>, JBool(TRUE))
           [] s[i] = "f" -> Literal(s, i, <<"f", "a", "l", "s", "e">>, JBool(FALSE))
           [] s[i] = "\"" -> ScanString(s, i + 1, <<>>)
           [] s[i] = "-" \/ IsDigit(s[i]) -> ScanNumber(s, i)
           [] s[i] = "[" ->
                LET j == SkipWs(s, i + 1) IN
                  IF j <= Len(s) /\ s[j] = "]" THEN Decoded(JList(<<>>), j + 1)
                  ELSE ScanItems(s, j, <<>>)
           [] s[i] = "{" ->
                LET j == SkipWs(s, i + 1) IN
                  IF j <= Len(s) /\ s[j] = "}" THEN Decoded(JObj(<<>>), j + 1)
                  ELSE ScanMembers(s, j, <<>>)
           [] OTHER -> DecodeFail

\* the items of an array from character i on, after those of acc
ScanItems(s, i, acc) ==
    LET item == ScanValue(s, i)
        j == SkipWs(s, item.next)
    IN IF ~item.ok \/ j > Len(s) THEN DecodeFail
       ELSE IF s[j] = "]" THEN Decoded(JList(Append(acc, item.v)), j + 1)
       ELSE IF s[j] = "," THEN ScanItems(s, SkipWs(s, j + 1), Append(acc, item.v))
       ELSE DecodeFail

\* the members of an object from character i on, after those of acc
ScanMembers(s, i, acc) ==
    LET key == IF i <= Len(s) /\ s[i] = "\"" THEN ScanString(s, i + 1, <<>>) ELSE DecodeFail
        colon == SkipWs(s, key.next)
        val == IF key.ok /\ colon <= Len(s) /\ s[colon] = ":"
                 THEN ScanValue(s, SkipWs(s, colon + 1)) ELSE DecodeFail
        j == SkipWs(s, val.next)
        members == SelectSeq(acc, LAMBDA mem : mem.k # key.v.s) \o
                   <<[k |-> key.v.s, v |-> val.v]>>
    IN IF ~val.ok \/ j > Len(s) THEN DecodeFail
       ELSE IF s[j] = "}" THEN Decoded(JObj(members), j + 1)
       ELSE IF s[j] = "," THEN ScanMembers(s, SkipWs(s, j + 1), members)
       ELSE DecodeFail

\* json.loads and response.json(): the value, or not ok for a decode error
JsonDecode(s) ==
    LET r == ScanValue(s, SkipWs(s, 1)) IN
      IF r.ok /\ SkipWs(s, r.next) = Len(s) + 1 THEN r ELSE DecodeFail

\* mcp_response['content'][0]['text'], or the exception of the lookup
ResultText(mcp_response) ==
    IF mcp_response.t # "obj" THEN Raised("TypeError")
    ELSE IF ~JHas(mcp_response, K_content) THEN Raised("KeyError")
    ELSE LET content == JGet(mcp_response, K_content) IN
      IF content.t = "obj" THEN Raised("KeyError")
      ELSE IF content.t # "list" THEN Raised("TypeError")
      ELSE IF content.items = <<>> THEN Raised("IndexError")
      ELSE IF content.items[1].t # "obj" THEN Raised("TypeError")
      ELSE IF ~JHas(content.items[1], K_text) THEN Raised("KeyError")
      ELSE JGet(content.items[1], K_text)

\* a forgotten second decode: the text itself is returned
LoadsResultTextOnce(result_text) == result_text

\* json.loads(result_text)
LoadsResultText(result_text) ==
    IF result_text.t # "str" THEN Raised("TypeError")
    ELSE IF JsonDecode(result_text.s).ok THEN JsonDecode(result_text.s).v
    ELSE Raised("JSONDecodeError")

\* what call_mcp_tool returns or raises for a 2xx answer with this body
CallMcpTool(body) ==
    LET mcp_response == JsonDecode(body) IN
      IF ~mcp_response.ok THEN Raised("JSONDecodeError")
      ELSE IF ResultText(mcp_response.v).t = "raised" THEN ResultText(mcp_response.v)
      ELSE LoadsResultText(ResultText(mcp_response.v))

\* example_client.py lines 188-191: content for a 2xx answer with this
\* body, NotReturned when the if is false, or the exception of the block
DemonstrateApi(body) ==
    LET res == JsonDecode(body)
        content == JGet(res.v, K_content)
    IN IF ~res.ok THEN Raised("JSONDecodeError")
       ELSE IF res.v.t # "obj" THEN Raised("TypeError")
       ELSE IF ~JHas(res.v, K_content) \/ ~JTruthy(content) THEN NotReturned
       ELSE IF content.t = "obj" THEN Raised("KeyError")
       ELSE IF content.t # "list" THEN Raised("TypeError")
       ELSE IF content.items[1].t # "obj" THEN Raised("AttributeError")
       ELSE IF ~JHas(content.items[1], K_text) THEN JObj(<<>>)
       ELSE LoadsResultText(JGet(content.items[1], K_text))

\* the tool execution result of the bridge for a payload
Envelope(payload_text) ==
    JObj(<<[k |-> K_content,
            v |-> JList(<<JObj(<<[k |-> <<"t", "y", "p", "e">>, v |-> JStr(K_text)],
                                 [k |-> K_text, v |-> JStr(payload_text)]>>)>>)]>>)

\* the bodies a 2xx answer of the bridge can carry
Body(kind, p, inner_spaced, outer_spaced) ==
    CASE kind = "tool_result" ->
           JsonEncode(Envelope(JsonEncode(p, inner_spaced)), outer_spaced)
      [] kind = "empty_content" ->
           JsonEncode(JObj(<<[k |-> K_content, v |-> JList(<<>>)]>>), outer_spaced)
      [] kind = "error_object" ->
           JsonEncode(JObj(<<[k |-> K_error, v |-> JStr(K_text)]>>), outer_spaced)
      [] kind = "not_json" -> <<"<", "h", "1", ">">>

UnwrapScripts == {"basic_example", "advanced_example", "example_client_add"}

UnwrapReq == Req("POST", <<"servers", "math", "tools", "add">>, "p1")

\* requests.post / session.post of the tool execution
call_mcp_tool_send ==
    /\ script \in UnwrapScripts
    /\ pc = "u_call"
    /\ Send(UnwrapReq)
    /\ pc' = "u_wait"
    /\ UNCHANGED <<args, out, files, text, parsed, payload, spaced, http_body, returned, bounded, script,
                   failed, exc, servers, agentVars, demoVars>>

\* a 2xx answer: call_mcp_tool returns or raises into its caller's except
call_mcp_tool_ok ==
    /\ script \in {"basic_example", "advanced_example"}
    /\ pc = "u_wait"
    /\ Returns(UnwrapReq)
    /\ \E kind \in {"tool_result", "empty_content", "error_object", "not_json"},
          outer_spaced \in BOOLEAN :
         http_body' = Body(kind, payload, spaced, outer_spaced)
    /\ returned' = CallMcpTool(http_body')
    /\ pc' = "u_done"
    /\ UNCHANGED <<args, out, files, text, parsed, payload, spaced, bounded, script, failed, exc, servers,
                   agentVars, demoVars>>

\* a 2xx answer to execute_tool in demonstrate_api
demonstrate_api_add_ok ==
    /\ script = "example_client_add"
    /\ pc = "u_wait"
    /\ Returns(UnwrapReq)
    /\ \E kind \in {"tool_result", "empty_content", "error_object", "not_json"},
          outer_spaced \in BOOLEAN :
         http_body' = Body(kind, payload, spaced, outer_spaced)
    /\ returned' = DemonstrateApi(http_body')
    /\ pc' = "u_done"
    /\ UNCHANGED <<args, out, files, text, parsed, payload, spaced, bounded, script, failed, exc, servers,
                   agentVars, demoVars>>

\* no answer, or raise_for_status on a 4xx or 5xx answer
call_mcp_tool_raise ==
    /\ script \in UnwrapScripts
    /\ pc = "u_wait"
    /\ Fails(UnwrapReq)
    /\ \E k \in FailKinds :
         returned' = Raised(IF k = "conn" THEN "ConnectionError" ELSE "HTTPError")
    /\ pc' = "u_done"
    /\ UNCHANGED <<args, out, files, text, parsed, payload, spaced, http_body, bounded, script, exc, servers,
                   agentVars, demoVars>>

-----------------------------------------------------------------------------
(* example_client.py: methods of MCPBridgeClient called on their own *)

\* urllib.parse.quote(s, safe): letters, digits and _.-~ are kept, every
\* other character that is not in safe becomes % and two hex digits
RECURSIVE Quote(_, _)
Quote(s, safe) ==
    IF s = <<>> THEN <<>>
    ELSE LET c == Head(s)
             enc == CASE c = "/" -> <<"%", "2", "F">>
                      [] c = ":" -> <<"%", "3", "A">>
                      [] c = "?" -> <<"%", "3", "F">>
                      [] c = "%" -> <<"%", "2", "5">>
                      [] c = " " -> <<"%", "2", "0">>
                      [] OTHER -> <<c>>
         IN  (IF c \in safe THEN <<c>> ELSE enc) \o Quote(Tail(s), safe)

\* add_server with env in the payload whether or not it is truthy
add_server_env_always ==
    /\ script = "add_server"
    /\ pc = "m_call"
    /\ out' = JObj(<<[k |-> "id", v |-> args.server_id],
                     [k |-> "command", v |-> args.command],
                     [k |-> "args", v |-> args.args],
                     [k |-> "riskLevel", v |-> args.risk_level],
                     [k |-> "env", v |-> args.env]>>)
    /\ Send(Req("POST", <<"servers">>, out'))
    /\ pc' = "m_wait"
    /\ UNCHANGED <<args, files, text, parsed, payload, spaced, http_body, returned, bounded,
                   script, failed, exc, servers, agentVars, demoVars>>

\* add_server up to session.post: the payload, env only if it is truthy
add_server ==
    /\ script = "add_server"
    /\ pc = "m_call"
    /\ out' = JObj(<<[k |-> "id", v |-> args.server_id],
                     [k |-> "command", v |-> args.command],
                     [k |-> "args", v |-> args.args],
                     [k |-> "riskLevel", v |-> args.risk_level]>>
                   \o (IF JTruthy(args.env) THEN <<[k |-> "env", v |-> args.env]>> ELSE <<>>))
    /\ Send(Req("POST", <<"servers">>, out'))
    /\ pc' = "m_wait"
    /\ UNCHANGED <<args, files, text, parsed, payload, spaced, http_body, returned, bounded,
                   script, failed, exc, servers, agentVars, demoVars>>

\* read_resource with quote's default safe characters
read_resource_default_safe ==
    /\ script = "read_resource"
    /\ pc = "m_call"
    /\ out' = Quote(args.resource_uri, {"/"})
    /\ Send(Req("GET", <<"servers", args.server_id, "resources", out'>>, NULL))
    /\ pc' = "m_wait"
    /\ UNCHANGED <<args, files, text, parsed, payload, spaced, http_body, returned, bounded,
                   script, failed, exc, servers, agentVars, demoVars>>

\* read_resource up to session.get: the URI is quoted with safe=''
read_resource ==
    /\ script = "read_resource"
    /\ pc = "m_call"
    /\ out' = Quote(args.resource_uri, {})
    /\ Send(Req("GET", <<"servers", args.server_id, "resources", out'>>, NULL))
    /\ pc' = "m_wait"
    /\ UNCHANGED <<args, files, text, parsed, payload, spaced, http_body, returned, bounded,
                   script, failed, exc, servers, agentVars, demoVars>>

\* the answer: response.json() is returned, or no answer or raise_for_status
\* raises into the caller of the method
method_response ==
    /\ script \in {"add_server", "read_resource"}
    /\ pc = "m_wait"
    /\ \E r \in inflight :
         \/ /\ Returns(r)
            /\ returned' \in {JObj(<<>>), JObj(<<[k |-> "status", v |-> JStr(<<"o", "k">>)]>>)}
            /\ UNCHANGED failed
         \/ /\ Fails(r)
            /\ \E k \in FailKinds :
                 returned' = Raised(IF k = "conn" THEN "ConnectionError" ELSE "HTTPError")
    /\ pc' = "m_done"
    /\ UNCHANGED <<args, out, files, text, parsed, payload, spaced, http_body, bounded, script,
                   exc, servers, agentVars, demoVars>>

-----------------------------------------------------------------------------
(* The Postman generator tests: test_postman_generator.py,
   test_generate_postman_real.py, access-bridge/test_postman_generator.py *)

\* requests.post of the payload to /generate-postman
generate_postman_send ==
    /\ script \in {"postman_http", "postman_stdio", "postman_real", "postman_access"}
    /\ pc = "g_call"
    /\ Send(Req("POST", <<"generate-postman">>,
                IF script = "postman_stdio" THEN "serverCommand" ELSE "serverUrl"))
    /\ pc' = "g_wait"
    /\ UNCHANGED <<fnVars, bounded, script, failed, exc, servers, agentVars, demoVars>>

\* the test with response.ok in place of status_code == 200
generate_postman_response_ok ==
    /\ script \in {"postman_http", "postman_stdio", "postman_real", "postman_access"}
    /\ pc = "g_wait"
    /\ \E r \in inflight :
         \/ /\ Returns(r)
            /\ UNCHANGED failed
            /\ \E status \in {200, 201, 404, 500},
                  shape \in {"full", "not_json", "no_metadata", "no_collection",
                             "collection_without_info"} :
                 LET long == script \in {"postman_real", "postman_access"}
                     \* open() has created the file when result['collection'] is evaluated
                     opened == shape \in {"full", "no_collection", "collection_without_info"}
                     \* the prints after the dump read collection['info'] and ['item']
                     ok == shape = "full" \/ (shape = "collection_without_info" /\ ~long)
                     name == CASE script = "postman_http" -> "mcp-collection-http"
                               [] script = "postman_stdio" -> "mcp-collection-stdio"
                               [] script = "postman_real" -> "math-server-collection"
                               [] OTHER -> "math-server-postman-collection"
                 IN  /\ http_body' = [status |-> status, shape |-> shape]
                     /\ files' = IF (status < 400) /\ opened
                                   THEN {[name |-> name,
                                          content |-> IF shape = "no_collection"
                                                        THEN "empty" ELSE "collection"]}
                                   ELSE files
                     /\ returned' =
                          IF script = "postman_access"
                            THEN JList(<<JBool((status < 400) /\ ok),
                                         IF (status < 400) /\ ok THEN JStr(<<name>>) ELSE JNull>>)
                            ELSE JBool((status < 400) /\ ok)
         \/ /\ Fails(r)
            /\ \E k \in {"timeout", "conn"} : http_body' = [status |-> 0, shape |-> k]
            /\ files' = files
            /\ returned' = IF script = "postman_access"
                             THEN JList(<<JBool(FALSE), JNull>>) ELSE JBool(FALSE)
    /\ pc' = "g_done"
    /\ UNCHANGED <<args, out, text, parsed, payload, spaced, bounded, script, exc, servers,
                   agentVars, demoVars>>

\* the answer: on status 200 the metadata is printed, the file is opened and
\* the collection dumped, True is returned; on another status, or when the
\* request or any of these steps raises, False is returned
generate_postman_response ==
    /\ script \in {"postman_http", "postman_stdio", "postman_real", "postman_access"}
    /\ pc = "g_wait"
    /\ \E r \in inflight :
         \/ /\ Returns(r)
            /\ UNCHANGED failed
            /\ \E status \in {200, 201, 404, 500},
                  shape \in {"full", "not_json", "no_metadata", "no_collection",
                             "collection_without_info"} :
                 LET long == script \in {"postman_real", "postman_access"}
                     \* open() has created the file when result['collection'] is evaluated
                     opened == shape \in {"full", "no_collection", "collection_without_info"}
                     \* the prints after the dump read collection['info'] and ['item']
                     ok == shape = "full" \/ (shape = "collection_without_info" /\ ~long)
                     name == CASE script = "postman_http" -> "mcp-collection-http"
                               [] script = "postman_stdio" -> "mcp-collection-stdio"
                               [] script = "postman_real" -> "math-server-collection"
                               [] OTHER -> "math-server-postman-collection"
                 IN  /\ http_body' = [status |-> status, shape |-> shape]
                     /\ files' = IF (status = 200) /\ opened
                                   THEN {[name |-> name,
                                          content |-> IF shape = "no_collection"
                                                        THEN "empty" ELSE "collection"]}
                                   ELSE files
                     /\ returned' =
                          IF script = "postman_access"
                            THEN JList(<<JBool((status = 200) /\ ok),
                                         IF (status = 200) /\ ok THEN JStr(<<name>>) ELSE JNull>>)
                            ELSE JBool((status = 200) /\ ok)
         \/ /\ Fails(r)
            /\ \E k \in {"timeout", "conn"} : http_body' = [status |-> 0, shape |-> k]
            /\ files' = files
            /\ returned' = IF script = "postman_access"
                             THEN JList(<<JBool(FALSE), JNull>>) ELSE JBool(FALSE)
    /\ pc' = "g_done"
    /\ UNCHANGED <<args, out, text, parsed, payload, spaced, bounded, script, exc, servers,
                   agentVars, demoVars>>

-----------------------------------------------------------------------------
(* llm_test.py: the command line and the environment *)

\* get_mcp_url: with a truthy --mcp-port the URL is split by urlparse and
\* put together again with the netloc up to its first colon and the port
get_mcp_url ==
    /\ script = "get_mcp_url"
    /\ pc = "m_call"
    /\ out' = IF JTruthy(args.mcp_port)
                THEN LET url == args.mcp_url
                         i == Find(url, <<"://">>)
                         rest == SubSeq(url, i + 1, Len(url))
                         \* the netloc ends at the first /, ? or #
                         ends == {j \in 1..Len(rest) : rest[j] \in {"/p", "?q", "#f"}}
                         k == IF ends = {} THEN Len(rest) + 1
                              ELSE CHOOSE a \in ends : \A b \in ends : a <= b
                         netloc == SubSeq(rest, 1, k - 1)
                     IN  SubSeq(url, 1, i) \o Split(netloc, <<":">>)[1] \o <<":">>
                           \o NatChars(args.mcp_port.n) \o SubSeq(rest, k, Len(rest))
                ELSE args.mcp_url
    /\ pc' = "m_done"
    /\ UNCHANGED <<args, files, text, parsed, payload, spaced, http_body, returned, bounded,
                   script, inflight, failed, exc, servers, agentVars, demoVars>>

\* client.py with a constant BASE_URL
module_globals_constant ==
    /\ script \in {"import_client", "import_basic_example", "import_llm_test"}
    /\ pc = "m_call"
    /\ out' = CASE script = "import_client" ->
                     [base_url |-> JStr(<<"https://mcp-bridge-api-main.onrender.com">>)]
                [] script = "import_basic_example" ->
                     [base_url |-> JStr(<<"https://mcp-bridge-api-main.onrender.com">>)]
                [] OTHER ->
                     [base_url |-> JStr(<<"http://localhost:3000">>),
                      key |-> args.GEMINI_API_KEY]
    /\ pc' = "m_done"
    /\ UNCHANGED <<args, files, text, parsed, payload, spaced, http_body, returned, bounded,
                   script, inflight, failed, exc, servers, agentVars, demoVars>>

\* the module-level settings of access-bridge/client.py (BASE_URL, from
\* os.getenv with a default), basic_example.py (BRIDGE_URL, a constant) and
\* llm_test.py (the default of --mcp-url, and GEMINI_API_KEY from
\* os.environ.get, None when unset); args is the environment, JNull for unset
module_globals ==
    /\ script \in {"import_client", "import_basic_example", "import_llm_test"}
    /\ pc = "m_call"
    /\ out' = CASE script = "import_client" ->
                     [base_url |-> IF args.MCP_BRIDGE_URL = JNull
                                    THEN JStr(<<"https://mcp-bridge-api-main.onrender.com">>)
                                    ELSE args.MCP_BRIDGE_URL]
                [] script = "import_basic_example" ->
                     [base_url |-> JStr(<<"https://mcp-bridge-api-main.onrender.com">>)]
                [] OTHER ->
                     [base_url |-> JStr(<<"http://localhost:3000">>),
                      key |-> args.GEMINI_API_KEY]
    /\ pc' = "m_done"
    /\ UNCHANGED <<args, files, text, parsed, payload, spaced, http_body, returned, bounded,
                   script, inflight, failed, exc, servers, agentVars, demoVars>>

-----------------------------------------------------------------------------
(* test_postman_generator.py: main and test_generate_postman_math_server *)

\* requests.get of /health, by main (line 223) and then by the test (line 118)
postman_main_send ==
    /\ script = "postman_main"
    /\ pc \in {"t_main", "t_test"}
    /\ Send(Req("GET", <<"health">>, NULL))
    /\ pc' = IF pc = "t_main" THEN "t_main_wait" ELSE "t_test_wait"
    /\ UNCHANGED <<fnVars, bounded, script, failed, exc, servers, agentVars, demoVars>>

\* the test fails instead of being skipped when no math server is listed
postman_main_response_no_skip ==
    /\ script = "postman_main"
    /\ pc \in {"t_main_wait", "t_test_wait"}
    /\ \E r \in inflight :
         \/ /\ Returns(r)
            /\ UNCHANGED failed
            /\ \E status \in {200, 503},
                  shape \in {"math_listed", "no_math", "no_servers", "not_json", "not_a_dict"} :
                 LET \* health_response.json() and the reads of health_data raise
                     raises == shape \in {"not_json", "not_a_dict"}
                     passed == status = 200 /\ ~raises /\ (shape = "math_listed" \/ FALSE)
                 IN  /\ http_body' = [status |-> status, shape |-> shape]
                     /\ IF pc = "t_main_wait"
                          THEN /\ pc' = IF status = 200 /\ ~raises THEN "t_test" ELSE "t_done"
                               /\ UNCHANGED <<returned, out>>
                          ELSE /\ returned' = JBool(passed)
                               /\ out' = [t |-> "summary", run |-> 1,
                                          passed |-> IF passed THEN 1 ELSE 0,
                                          failed |-> 1 - (IF passed THEN 1 ELSE 0)]
                               /\ pc' = "t_done"
         \/ /\ Fails(r)
            /\ \E k \in {"timeout", "conn"} : http_body' = [status |-> 0, shape |-> k]
            /\ IF pc = "t_main_wait"
                 THEN UNCHANGED <<returned, out>>
                 ELSE /\ returned' = JBool(FALSE)
                      /\ out' = [t |-> "summary", run |-> 1, passed |-> 0, failed |-> 1]
            /\ pc' = "t_done"
    /\ UNCHANGED <<args, files, text, parsed, payload, spaced, bounded, script, exc, servers,
                   agentVars, demoVars>>

\* the answer to main's health check: main goes on to the tests on a 200
\* answer it can read, and returns otherwise; the answer to the test's: the
\* test returns True with or without a math server, False on another
\* status or any exception, and main prints the summary of its one result
postman_main_response ==
    /\ script = "postman_main"
    /\ pc \in {"t_main_wait", "t_test_wait"}
    /\ \E r \in inflight :
         \/ /\ Returns(r)
            /\ UNCHANGED failed
            /\ \E status \in {200, 503},
                  shape \in {"math_listed", "no_math", "no_servers", "not_json", "not_a_dict"} :
                 LET \* health_response.json() and the reads of health_data raise
                     raises == shape \in {"not_json", "not_a_dict"}
                     passed == status = 200 /\ ~raises /\ (shape = "math_listed" \/ TRUE)
                 IN  /\ http_body' = [status |-> status, shape |-> shape]
                     /\ IF pc = "t_main_wait"
                          THEN /\ pc' = IF status = 200 /\ ~raises THEN "t_test" ELSE "t_done"
                               /\ UNCHANGED <<returned, out>>
                          ELSE /\ returned' = JBool(passed)
                               /\ out' = [t |-> "summary", run |-> 1,
                                          passed |-> IF passed THEN 1 ELSE 0,
                                          failed |-> 1 - (IF passed THEN 1 ELSE 0)]
                               /\ pc' = "t_done"
         \/ /\ Fails(r)
            /\ \E k \in {"timeout", "conn"} : http_body' = [status |-> 0, shape |-> k]
            /\ IF pc = "t_main_wait"
                 THEN UNCHANGED <<returned, out>>
                 ELSE /\ returned' = JBool(FALSE)
                      /\ out' = [t |-> "summary", run |-> 1, passed |-> 0, failed |-> 1]
            /\ pc' = "t_done"
    /\ UNCHANGED <<args, files, text, parsed, payload, spaced, bounded, script, exc, servers,
                   agentVars, demoVars>>

-----------------------------------------------------------------------------
(* access-bridge/test_timeout.py: main, quick_test and test_long_timeout *)

\* the statements of main up to its next request. With an argument: float()
\* and, in test_long_timeout, datetime.fromtimestamp of the expected
\* completion run inside the try of main; a ValueError of either exits with
\* status 1, an OverflowError ends the script with a traceback, otherwise
\* the long request is posted. Without: the health check, then quick_test,
\* then input() and test_long_timeout(20)
test_timeout_send ==
    /\ script = "test_timeout"
    /\ pc \in {"w_start", "w_quick", "w_enter"}
    /\ IF pc = "w_start" /\ args.given /\ args.kind # "number"
         THEN /\ returned' = IF args.kind = "inf" THEN Raised("OverflowError")
                             ELSE [t |-> "exit", code |-> 1]
              /\ pc' = "w_done"
              /\ UNCHANGED <<inflight, out>>
         ELSE \/ /\ pc = "w_start" /\ args.given
                 /\ Send(Req("POST", <<"test", "timeout", "20.0">>, NULL))
                 /\ out' = JStr(<<IF args.local THEN "http://localhost:3000"
                                  ELSE "https://mcp-bridge-api-main.onrender.com">>)
                 /\ pc' = "w_long_wait"
                 /\ UNCHANGED returned
              \/ /\ pc = "w_start" /\ ~args.given
                 /\ Send(Req("GET", <<"health">>, NULL))
                 /\ pc' = "w_health_wait"
                 /\ UNCHANGED <<returned, out>>
              \/ /\ pc = "w_quick"
                 /\ Send(Req("POST", <<"test", "timeout", "1">>, NULL))
                 /\ pc' = "w_quick_wait"
                 /\ UNCHANGED <<returned, out>>
              \/ \* Enter is pressed
                 /\ pc = "w_enter"
                 /\ Send(Req("POST", <<"test", "timeout", "20">>, NULL))
                 /\ out' = JStr(<<"https://mcp-bridge-api-main.onrender.com">>)
                 /\ pc' = "w_long_wait"
                 /\ UNCHANGED returned
              \/ \* Ctrl+C at the prompt
                 /\ pc = "w_enter"
                 /\ returned' = Raised("KeyboardInterrupt")
                 /\ pc' = "w_done"
                 /\ UNCHANGED <<inflight, out>>
    /\ UNCHANGED <<args, files, text, parsed, payload, spaced, http_body, bounded, script,
                   failed, exc, servers, agentVars, demoVars>>

\* the answer to the health check, to the quick test or to the long test:
\* main goes on after a successful health check and a successful quick test
\* and returns after a failed one; test_long_timeout returns True or False
test_timeout_response ==
    /\ script = "test_timeout"
    /\ pc \in {"w_health_wait", "w_quick_wait", "w_long_wait"}
    /\ \E r \in inflight :
         \/ /\ Returns(r)
            /\ UNCHANGED failed
            /\ pc' = CASE pc = "w_health_wait" -> "w_quick"
                       [] pc = "w_quick_wait" -> "w_enter"
                       [] OTHER -> "w_done"
            /\ returned' = IF pc = "w_long_wait" THEN JBool(TRUE) ELSE returned
         \/ /\ Fails(r)
            /\ pc' = "w_done"
            /\ returned' = IF pc = "w_long_wait" THEN JBool(FALSE) ELSE returned
    /\ UNCHANGED <<args, out, files, text, parsed, payload, spaced, http_body, bounded, script,
                   exc, servers, agentVars, demoVars>>

-----------------------------------------------------------------------------
(* connect_your_server.py: main, connect_server and test_server *)

\* the requests of main (GET /health), connect_server (POST /servers) and
\* test_server (GET /servers, then GET /servers/{id}/tools)
connect_main_send ==
    /\ script = "connect_main"
    /\ pc \in {"k_health", "k_connect", "k_test", "k_tools"}
    /\ Send(CASE pc = "k_health" -> Req("GET", <<"health">>, NULL)
              [] pc = "k_connect" -> Req("POST", <<"servers">>, "YOUR_SERVER_CONFIG")
              [] pc = "k_test" -> Req("GET", <<"servers">>, NULL)
              [] OTHER -> Req("GET", <<"servers", "your-server-name", "tools">>, NULL))
    /\ pc' = CASE pc = "k_health" -> "k_health_wait"
               [] pc = "k_connect" -> "k_connect_wait"
               [] pc = "k_test" -> "k_servers_wait"
               [] OTHER -> "k_tools_wait"
    /\ UNCHANGED <<fnVars, bounded, script, failed, exc, servers, agentVars, demoVars>>

\* connect_server also returns True when the server already exists (409)
connect_main_response_exists ==
    /\ script = "connect_main"
    /\ pc \in {"k_health_wait", "k_connect_wait", "k_servers_wait", "k_tools_wait"}
    /\ \E r \in inflight :
         \/ /\ Returns(r)
            /\ UNCHANGED failed
            /\ \E status \in {200, 201, 409, 500},
                  shape \in {"full", "not_json", "keys_missing"} :
                 /\ http_body' = [status |-> status, shape |-> shape]
                 /\ CASE pc = "k_health_wait" ->
                           \* response.json() and health.get: any status will do
                           /\ pc' = IF shape = "not_json" THEN "k_done" ELSE "k_connect"
                           /\ UNCHANGED <<returned, out>>
                      [] pc = "k_connect_wait" ->
                           \* 201 and a body with id, status and pid
                           LET ok == status \in {201, 409} /\ shape = "full"
                           IN  /\ returned' = JBool(ok)
                               /\ pc' = IF ok THEN "k_test" ELSE "k_done"
                               /\ out' = out
                      [] pc = "k_servers_wait" ->
                           \* the server is in the list, with its pid
                           /\ pc' = IF shape = "full" THEN "k_tools" ELSE "k_done"
                           /\ out' = IF shape = "full" THEN out
                                     ELSE [t |-> "test_server", ok |-> FALSE]
                           /\ UNCHANGED returned
                      [] OTHER ->
                           /\ pc' = "k_done"
                           /\ out' = [t |-> "test_server",
                                      ok |-> status = 200 /\ shape # "not_json"]
                           /\ UNCHANGED returned
         \/ /\ Fails(r)
            /\ \E k \in {"conn", "timeout"} : http_body' = [status |-> 0, shape |-> k]
            /\ pc' = "k_done"
            /\ returned' = IF pc = "k_connect_wait" THEN JBool(FALSE) ELSE returned
            /\ out' = IF pc \in {"k_servers_wait", "k_tools_wait"}
                        THEN [t |-> "test_server", ok |-> FALSE] ELSE out
    /\ UNCHANGED <<args, files, text, parsed, payload, spaced, bounded, script, exc, servers,
                   agentVars, demoVars>>

\* the answer to main's health check (main returns unless it is JSON), to
\* connect_server's POST (True on 201 only, when the body can be printed),
\* to test_server's server list and to its tools request; an exception of
\* any of them is caught in the function and gives False
connect_main_response ==
    /\ script = "connect_main"
    /\ pc \in {"k_health_wait", "k_connect_wait", "k_servers_wait", "k_tools_wait"}
    /\ \E r \in inflight :
         \/ /\ Returns(r)
            /\ UNCHANGED failed
            /\ \E status \in {200, 201, 409, 500},
                  shape \in {"full", "not_json", "keys_missing"} :
                 /\ http_body' = [status |-> status, shape |-> shape]
                 /\ CASE pc = "k_health_wait" ->
                           \* response.json() and health.get: any status will do
                           /\ pc' = IF shape = "not_json" THEN "k_done" ELSE "k_connect"
                           /\ UNCHANGED <<returned, out>>
                      [] pc = "k_connect_wait" ->
                           \* 201 and a body with id, status and pid
                           LET ok == status = 201 /\ shape = "full"
                           IN  /\ returned' = JBool(ok)
                               /\ pc' = IF ok THEN "k_test" ELSE "k_done"
                               /\ out' = out
                      [] pc = "k_servers_wait" ->
                           \* the server is in the list, with its pid
                           /\ pc' = IF shape = "full" THEN "k_tools" ELSE "k_done"
                           /\ out' = IF shape = "full" THEN out
                                     ELSE [t |-> "test_server", ok |-> FALSE]
                           /\ UNCHANGED returned
                      [] OTHER ->
                           /\ pc' = "k_done"
                           /\ out' = [t |-> "test_server",
                                      ok |-> status = 200 /\ shape # "not_json"]
                           /\ UNCHANGED returned
         \/ /\ Fails(r)
            /\ \E k \in {"conn", "timeout"} : http_body' = [status |-> 0, shape |-> k]
            /\ pc' = "k_done"
            /\ returned' = IF pc = "k_connect_wait" THEN JBool(FALSE) ELSE returned
            /\ out' = IF pc \in {"k_servers_wait", "k_tools_wait"}
                        THEN [t |-> "test_server", ok |-> FALSE] ELSE out
    /\ UNCHANGED <<args, files, text, parsed, payload, spaced, bounded, script, exc, servers,
                   agentVars, demoVars>>

-----------------------------------------------------------------------------
(* Specifications *)

\* the variables of the scripts before the first statement
ScriptDefaults ==
    /\ inflight = {}
    /\ failed = {}
    /\ exc = NoExc
    /\ servers = <<>>
    /\ sidx = 1
    /\ all_tools = <<>>
    /\ llmSeq = 0
    /\ processed_response = [kind |-> "null"]
    /\ tool_call = EmptyDict
    /\ result = PyNone
    /\ error = "None"
    /\ execResult = [result |-> PyNone, error |-> "None"]
    /\ execN = 0
    /\ fbN = 0
    /\ tool_feedback = "none"
    /\ promptsThisExec = 0
    /\ confirmed = FALSE
    /\ confirms = {}
    /\ answers = {}
    /\ dstep = 1
    /\ tools = "none"
    /\ client = "unbound"
    /\ out = NotReturned
    /\ files = {}

UnwrapDefaults ==
    /\ payload = JNull
    /\ spaced = FALSE
    /\ http_body = <<>>
    /\ returned = NotReturned

InitScripts ==
    /\ script \in {"agent", "demo", "add_server", "read_resource", "get_mcp_url",
                   "import_client", "import_basic_example", "import_llm_test",
                   "postman_main", "test_timeout", "connect_main",
                   "postman_http", "postman_stdio", "postman_real", "postman_access"}
    /\ pc = CASE script = "agent" -> "a_health"
               [] script = "demo" -> "d_ctor"
               [] script \in {"postman_http", "postman_stdio", "postman_real",
                              "postman_access"} -> "g_call"
               [] script = "postman_main" -> "t_main"
               [] script = "test_timeout" -> "w_start"
               [] script = "connect_main" -> "k_health"
               [] OTHER -> "m_call"
    /\ gemini_key \in (IF script = "agent" THEN BOOLEAN ELSE {TRUE})
    /\ ScriptDefaults
    /\ text = <<>>
    /\ parsed = NotCalled
    /\ UnwrapDefaults
    /\ args \in CASE script = "add_server" ->
                    \* env and risk_level are passed, or have their defaults None and 1
                    [server_id : {JStr(<<"s", "1">>)}, command : {JStr(<<"n">>)},
                     args : {JList(<<>>), JList(<<JStr(<<"a">>)>>)},
                     env_passed : {FALSE}, env : {JNull},
                     risk_passed : BOOLEAN, risk_level : {JNum(1)}]
                    \cup
                    [server_id : {JStr(<<"s", "1">>)}, command : {JStr(<<"n">>)},
                     args : {JList(<<>>), JList(<<JStr(<<"a">>)>>)},
                     env_passed : {TRUE},
                     env : {JNull, JObj(<<>>), JObj(<<[k |-> "K", v |-> JStr(<<"a">>)]>>)},
                     risk_passed : {TRUE}, risk_level : {JNum(0), JNum(1), JNum(3)}]
                    \cup
                    [server_id : {JStr(<<"s", "1">>)}, command : {JStr(<<"n">>)},
                     args : {JList(<<>>)},
                     env_passed : {TRUE},
                     env : {JNull, JObj(<<>>), JObj(<<[k |-> "K", v |-> JStr(<<"a">>)]>>)},
                     risk_passed : {FALSE}, risk_level : {JNum(1)}]
                 [] script = "read_resource" ->
                    [server_id : {"s1"},
                     resource_uri : UNION {[1..n -> {"a", "/", ":", "?", "%", "2", "F", " "}] :
                                              n \in 0..MaxUriLen}]
                 [] script = "get_mcp_url" ->
                    \* --mcp-url: scheme, netloc (host, user:password@host or
                    \* [IPv6], each with or without a port), then path, params,
                    \* query and fragment; --mcp-port: absent, 0 or 8080
                    [mcp_url : {<<"http", "://">> \o user \o host \o port \o rest :
                                  user \in {<<>>, <<"u", "@">>, <<"u", ":", "w", "@">>},
                                  host \in {<<"h">>, <<"[", ":", ":", "1", "]">>},
                                  port \in {<<>>, <<":", "3", "0", "0", "0">>},
                                  rest \in {<<>>, <<"/p">>, <<"?q">>, <<"#f">>, <<"/p", "?q">>,
                                            <<"/p", ";x", "?q", "#f">>}},
                     mcp_port : {JNull, JNum(0), JNum(8080)}]
                 [] script \in {"import_client", "import_basic_example", "import_llm_test"} ->
                    [MCP_BRIDGE_URL : {JNull, JStr(<<>>), JStr(<<"http://b">>)},
                     BRIDGE_URL : {JNull, JStr(<<>>), JStr(<<"http://c">>)},
                     GEMINI_API_KEY : {JNull, JStr(<<>>), JStr(<<"k">>)}]
                 [] script = "test_timeout" ->
                    \* sys.argv[1:]: nothing, or a first argument that is a number
                    \* (20), a number too large for a date (1e10), inf, nan or
                    \* not a number, with or without --local after it
                    [given : {FALSE}, kind : {"none"}, local : {FALSE}]
                    \cup [given : {TRUE}, kind : {"number", "huge", "inf", "nan", "text"},
                          local : BOOLEAN]
                 [] OTHER -> {JNull}

Init == bounded = TRUE /\ InitScripts

AgentNext ==
    \/ main_health_send \/ main_health_ok \/ main_health_fail \/ main_health_except
    \/ setup_gemini
    \/ get_all_servers_send \/ get_all_servers_ok \/ get_all_servers_fail
    \/ get_all_servers_except
    \/ get_server_tools_send \/ get_server_tools_ok \/ get_server_tools_fail
    \/ get_server_tools_except \/ get_all_tools_return
    \/ chat_start \/ user_exit \/ user_message \/ tool_loop_check \/ print_separator
    \/ execute_tool_send \/ execute_tool_ok \/ execute_tool_fail \/ execute_tool_except
    \/ check_confirmation \/ confirm_operation_ask \/ confirm_operation_send
    \/ confirm_operation_ok \/ confirm_operation_fail \/ confirm_operation_except
    \/ send_feedback

DemoNext ==
    \/ demo_send \/ demo_fail \/ ctor_health_ok \/ demo_health_ok \/ demo_servers_ok
    \/ demo_tools_ok \/ demo_tools_except \/ demo_exec_ok \/ demo_exec_except
    \/ demo_resources_ok \/ demo_resources_except \/ demo_prompts_ok
    \/ demo_prompts_except \/ dunder_main_except

Next ==
    \/ AgentNext
    \/ DemoNext
    \/ Propagate
    \/ add_server \/ read_resource \/ method_response
    \/ generate_postman_send \/ generate_postman_response
    \/ get_mcp_url \/ module_globals
    \/ postman_main_send \/ postman_main_response
    \/ test_timeout_send \/ test_timeout_response
    \/ connect_main_send \/ connect_main_response

Spec == Init /\ [][Next]_vars

\* the agent alone; no exception of the agent leaves the function that
\* issued the request, so Propagate is never enabled here
\* runs of unbounded length: the counters stop at MaxLLM + 1 and no history
\* is kept
InitLive == bounded = FALSE /\ InitScripts /\ script = "agent"

NextLive == AgentNext

\* the script is sequential: whenever it can take a step it takes one
SpecLive == InitLive /\ [][NextLive]_vars /\ WF_vars(NextLive)

\* the texts given to process_llm_response: up to MaxPieces pieces
Pieces ==
    {<<"w">>, <<" ">>, <<"F">>, <<"F", "j">>, <<"{", "k", "1", "}">>,
     <<"{", "T", "1", "}">>, <<"{", "R", "{", "}", "}">>, <<"{", "}">>,
     <<"{", "k", "{", "k", "1", "}", "}">>}

RECURSIVE Concat(_)
Concat(ps) == IF ps = <<>> THEN <<>> ELSE Head(ps) \o Concat(Tail(ps))

Texts == {Concat(ps) : ps \in UNION {[1..n -> Pieces] : n \in 0..MaxPieces}}

InitParse ==
    /\ bounded = TRUE
    /\ script = "process_llm_response"
    /\ pc = "p_call"
    /\ gemini_key = TRUE
    /\ ScriptDefaults
    /\ \/ text \in Texts /\ args = [t |-> "str"]
       \/ text = <<>> /\ args \in {JNull, JBool(FALSE), JNum(0), JNum(5), JList(<<>>),
                                    JList(<<JNum(1)>>), JObj(<<>>)}
    /\ parsed = NotCalled
    /\ UnwrapDefaults

SpecParse == InitParse /\ [][process_llm_response]_vars

\* the payloads of the bridge's tool results
Strs == UNION {[1..n -> {"a", "\"", "\\", "\n"}] : n \in 0..MaxStrLen}

PayloadValues ==
    {JNull, JBool(TRUE), JBool(FALSE), JNum(0), JNum(42), JNum(-7), JNum(105)}
      \cup {JStr(s) : s \in Strs}
      \cup {JList(<<JNum(1), JStr(s)>>) : s \in {t \in Strs : Len(t) <= 1}}
      \cup {JList(<<>>), JObj(<<[k |-> <<"a">>, v |-> JList(<<JNum(3), JNull>>)]>>)}

Payloads ==
    {JObj(<<[k |-> K_result, v |-> v]>>) : v \in PayloadValues}
      \cup {JObj(<<[k |-> K_error, v |-> JStr(s)]>>) : s \in Strs}

InitUnwrap ==
    /\ bounded = TRUE
    /\ script \in UnwrapScripts
    /\ pc = "u_call"
    /\ gemini_key = TRUE
    /\ ScriptDefaults
    /\ text = <<>>
    /\ parsed = NotCalled
    /\ payload \in Payloads
    /\ spaced \in BOOLEAN
    /\ http_body = <<>>
    /\ returned = NotReturned
    /\ args = JNull

NextUnwrap ==
    \/ call_mcp_tool_send
    \/ call_mcp_tool_ok
    \/ demonstrate_api_add_ok
    \/ call_mcp_tool_raise

SpecUnwrap == InitUnwrap /\ [][NextUnwrap]_vars

-----------------------------------------------------------------------------
(* Claims *)

IsToolPost(r) == r.m = "POST" /\ Len(r.path) = 4 /\ r.path[3] = "tools"

IsConfirmPost(r) == r.m = "POST" /\ r.path[1] = "confirmations"

AllThreeNonNull(tc) ==
    tc.kind = "obj" /\ tc.server_id # NULL /\ tc.tool_name # NULL /\ tc.parameters # NULL

\* C1 as stated: an HTTP exception never travels beyond the caller of the
\* function that issued the request.
C1_Original == exc # NoExc => exc.frame <= 2

\* C1 (amended): a failed HTTP request never ends a script with an unhandled
\* exception.  In the agent it is caught in the function that issued it.  In
\* example_client the client methods do not catch: a failed tools listing,
\* tool execution, resources or prompts listing is caught by the try block of
\* demonstrate_api, and a failed health check or server listing travels up to
\* the handler of the __main__ block.
C1_CaughtInsideScript ==
    /\ pc # "crashed_http"
    /\ (script = "agent" /\ exc # NoExc) => exc.frame = 1
    /\ (script = "demo" /\ exc # NoExc /\ exc.frame > 2) =>
          exc.site \in {"ctor_health", "demo_health", "demo_servers"}

C1_Witness ==
    /\ script = "demo" /\ pc = "done" /\ exc = NoExc
    /\ failed = {[req |-> Req("GET", <<"health">>, NULL), llm |-> 0]}

\* C2: a confirmation POST with confirm=true is sent only for a record the
\* user answered yes to; for a record the user answered no to, exactly one
\* POST with confirm=false and none with confirm=true is sent.
C2_ConfirmOnlyIfYes ==
    /\ \A c \in confirms :
         c.confirm => [exec |-> c.exec, cid |-> c.cid, answer |-> TRUE] \in answers
    /\ \A a \in answers :
         ~a.answer =>
           /\ ~\E c \in confirms : c.exec = a.exec /\ c.confirm
           /\ Cardinality({c \in confirms : c.exec = a.exec}) <= 1
           /\ (a.exec = execN /\ pc = "a_confirm_send")
                \/ \E c \in confirms : c.exec = a.exec /\ c.cid = a.cid /\ ~c.confirm

C2_Witness ==
    /\ \E c \in confirms : c.confirm
    /\ \E c \in confirms : ~c.confirm
    /\ pc = "a_report"

\* C3: the confirmation prompt is shown for a tool execution exactly when
\* execute_tool returned no error and a dict whose requires_confirmation is
\* true itself, at most once per execution, and the result of the confirmed
\* operation is not checked again.
C3_PromptIffRequired ==
    /\ promptsThisExec <= 1
    /\ pc \in {"a_confirm_send", "a_confirm_wait", "a_report"} =>
         (promptsThisExec = 1 <=>
            /\ execResult.error = "None"
            /\ execResult.result.isDict
            /\ execResult.result.rc = "true")
    /\ pc = "a_confirm_ask" =>
         /\ promptsThisExec = 0
         /\ execResult.error = "None"
         /\ execResult.result.isDict
         /\ execResult.result.rc = "true"

C3_Witness ==
    /\ pc = "a_report"
    /\ promptsThisExec = 1
    /\ error = "None"
    /\ result.rc = "true"

\* C4: every tool execution is followed by exactly one feedback message to
\* the LLM before another tool is executed and before the next input is
\* read; the message reports a failure exactly when the execution ended with
\* an error.
C4_OneFeedbackPerExecution ==
    /\ pc \in {"a_input", "a_loop", "a_separator", "a_exec"} => fbN = execN
    /\ pc \in {"a_exec_wait", "a_check", "a_confirm_ask", "a_confirm_send",
               "a_confirm_wait", "a_report"} => execN = fbN + 1
    /\ (pc = "a_loop" /\ execN > 0) =>
         /\ tool_feedback \in {"failed", "cancelled", "success"}
         /\ tool_feedback = "failed" <=> error # "None"

C4_Witness == pc = "a_input" /\ fbN = 2 /\ execN = 2

\* C5: a tool POST is sent only for a most recent LLM response whose
\* tool_call has server_id, tool_name and parameters all non-null; when the
\* tool_call is null or one of the three is null, nothing is sent and the
\* agent goes on to the separator and the user prompt.
C5_ToolOnlyForCompleteCall ==
    [][/\ \A r \in inflight' \ inflight :
            (script = "agent" /\ IsToolPost(r)) =>
               /\ AllThreeNonNull(processed_response)
               /\ r = Req("POST", <<"servers", processed_response.server_id, "tools",
                                    processed_response.tool_name>>,
                          processed_response.parameters)
       /\ (pc = "a_loop" /\ processed_response.kind # "nondict"
             /\ ~AllThreeNonNull(processed_response)) =>
               pc' = "a_separator" /\ inflight' = inflight /\ execN' = execN
       /\ pc = "a_separator" => pc' = "a_input" /\ inflight' = inflight
      ]_vars

C5_Witness ==
    /\ pc = "a_exec_wait"
    /\ llmSeq = 2
    /\ \E r \in inflight : IsToolPost(r)

\* C7: a request that raised is not sent again, except that the agent sends a
\* tool or confirmation request again when a later LLM response asks for the
\* tool; every tool execution belongs to an LLM response of its own.
C7_NoRetry ==
    [][\A r \in inflight' \ inflight :
          /\ [req |-> r, llm |-> llmSeq'] \notin failed
          /\ (script = "agent" /\ IsToolPost(r)) => execN' <= llmSeq'
      ]_vars

C7_Witness ==
    \E f \in failed : f.req \in inflight /\ IsToolPost(f.req) /\ f.llm < llmSeq

\* C8: at most one HTTP request is outstanding at any time.
C8_OneRequestAtATime == Cardinality(inflight) <= 1

C8_Witness ==
    /\ pc = "a_tools_wait"
    /\ sidx = 2
    /\ inflight = {ToolsReq(servers[2])}
    /\ Len(all_tools) = 1

LLMDeclines == pc = "a_loop" /\ ~AllThreeNonNull(processed_response)

ParsesToObject(cand) == json_loads(cand).ok /\ json_loads(cand).v.t = "obj"

\* the candidate substrings of the four strategies, in the order of the claim
Candidates(txt) ==
    LET lastOpen == RFind(txt, <<"{">>)
        jsonAt == Find(txt, <<"F", "j">>)
        firstOpen == Find(txt, <<"{">>)
        lastClose == RFind(txt, <<"}">>)
        c1 == IF lastOpen = 0 THEN <<>> ELSE <<SubSeq(txt, lastOpen, Len(txt))>>
        c2 == IF jsonAt = 0 THEN <<>>
              ELSE <<Split(SubSeq(txt, jsonAt + 2, Len(txt)), <<"F">>)[1]>>
        c3 == IF Find(txt, <<"F">>) = 0 THEN <<>> ELSE Split(txt, <<"F">>)
        c4 == IF firstOpen = 0 \/ lastClose < firstOpen THEN <<>>
              ELSE <<SubSeq(txt, firstOpen, lastClose)>>
    IN c1 \o c2 \o c3 \o c4

\* the object of the first candidate that parses to a JSON object
FirstObject(txt) ==
    LET cs == Candidates(txt)
        good == {i \in 1..Len(cs) : ParsesToObject(cs[i])}
    IN IF good = {} THEN JNull
       ELSE json_loads(cs[CHOOSE i \in good : \A j \in good : i <= j]).v

\* C9: process_llm_response returns the object of the first strategy, in the
\* order trailing block, json fence, fence segments, brace span, whose
\* candidate parses to a JSON object.
C9_Original ==
    (pc = "p_done" /\ FirstObject(text) # JNull) => parsed.data = FirstObject(text)

\* the answer's content[0].text is the JSON encoding of the payload
IsToolResultBody ==
    \E outer_spaced \in BOOLEAN :
      http_body = JsonEncode(Envelope(JsonEncode(payload, spaced)), outer_spaced)

\* C10: when the bridge answers with a body whose content[0].text is the
\* JSON encoding of a payload P, call_mcp_tool (and the unwrapping in
\* demonstrate_api) yields exactly P, for result and for error payloads.
C10_UnwrappedTwice ==
    (pc = "u_done" /\ IsToolResultBody) => returned = payload

C10_Witness ==
    /\ pc = "u_done"
    /\ script = "basic_example"
    /\ IsToolResultBody
    /\ spaced
    /\ payload = JObj(<<[k |-> K_error, v |-> JStr(<<"\"", "\\">>)]>>)
    /\ returned = payload

HealthReq == Req("GET", <<"health">>, NULL)

\* C13: when GET /health fails or GEMINI_API_KEY is unset, the agent's main
\* returns without having sent a /servers request or a chat message and
\* without having read user input: it is before or at the Gemini setup, or done.
C13_StartOrder ==
    (script = "agent" /\ (~gemini_key \/ \E f \in failed : f.req = HealthReq)) =>
      /\ pc \in {"a_health", "a_health_wait", "a_gemini", "done"}
      /\ inflight \subseteq {HealthReq}
      /\ servers = <<>> /\ all_tools = <<>>
      /\ llmSeq = 0 /\ execN = 0 /\ fbN = 0

C13_Witness ==
    script = "agent" /\ ~gemini_key /\ pc = "done" /\ failed = {} /\ inflight = {}

\* C14: in example_client the client is bound only by a constructor whose
\* GET /health succeeded with no failed health check before it, and every
\* request other than the constructor's health check is sent through a
\* bound client.
C14_ClientOnlyAfterHealth ==
    [][script = "demo" =>
         /\ (client = "unbound" /\ client' = "bound") =>
              (pc = "d_ctor_wait" /\ \A f \in failed' : f.req # HealthReq)
         /\ \A r \in inflight' \ inflight :
              client = "bound" \/ (pc = "d_ctor" /\ r = HealthReq)]_vars

C14_Witness ==
    /\ script = "demo" /\ pc = "done" /\ client = "unbound"
    /\ failed = {[req |-> HealthReq, llm |-> 0]} /\ inflight = {}

\* C18: for every argument, a string or not, process_llm_response returns a
\* dict with the keys tool_call and response, and does not raise.
C18_Original ==
    pc = "p_done" => {"tool_call", "response"} \subseteq DOMAIN parsed

\* C19: when no candidate of any strategy parses to a JSON object, as for
\* every text without "{", process_llm_response returns tool_call None and
\* the stripped text as the response.
C19_NoJsonIsPlainText ==
    (pc = "p_done" /\ args.t = "str" /\ FirstObject(text) = JNull) =>
      /\ parsed.tool_call = JNull
      /\ parsed.response = [text |-> Strip(text)]

C19_Witness ==
    /\ pc = "p_done"
    /\ text = <<" ", "w", " ", "F">>
    /\ parsed.tool_call = JNull
    /\ parsed.response = [text |-> <<"w", " ", "F">>]

\* C20: the except blocks of execute_tool and confirm_operation return
\* "Error: <error field>" for an error response with a JSON body, and the
\* generic message only without a response or with a body that is not JSON.
C20_Original ==
    [][(/\ script = "agent"
        /\ exc.site \in {"execute_tool", "confirm_operation"}
        /\ exc' = NoExc
        /\ error' # "None")
       => error' = IF exc.kind = "http_json" THEN "detail" ELSE "generic"]_vars


\* C11 as stated: add_server posts to /servers a body with id, command, args
\* and riskLevel (1 unless given) always, and with env, holding the caller's
\* value, whenever the caller passed an env argument
C11_Original ==
    script = "add_server" =>
      /\ \A r \in inflight : r.m = "POST" /\ r.path = <<"servers">> /\ r.body = out
      /\ pc # "m_call" =>
           /\ JGet(out, "id") = args.server_id
           /\ JGet(out, "command") = args.command
           /\ JGet(out, "args") = args.args
           /\ JGet(out, "riskLevel") = (IF args.risk_passed THEN args.risk_level ELSE JNum(1))
           /\ args.env_passed => (JHas(out, "env") /\ JGet(out, "env") = args.env)

\* C11 amended: add_server posts to /servers a body with id, command, args
\* and riskLevel (1 unless given) always; env is in the body, with the
\* caller's value, exactly when the caller passed a non-empty env
C11_AddServerBody ==
    script = "add_server" =>
      /\ \A r \in inflight : r.m = "POST" /\ r.path = <<"servers">> /\ r.body = out
      /\ pc # "m_call" =>
           /\ {"id", "command", "args", "riskLevel"} \subseteq {out.m[i].k : i \in 1..Len(out.m)}
           /\ JGet(out, "id") = args.server_id
           /\ JGet(out, "command") = args.command
           /\ JGet(out, "args") = args.args
           /\ JGet(out, "riskLevel") = (IF args.risk_passed THEN args.risk_level ELSE JNum(1))
           /\ JHas(out, "env") <=> (args.env_passed /\ JTruthy(args.env))
           /\ JHas(out, "env") => JGet(out, "env") = args.env

C11_Witness ==
    /\ script = "add_server" /\ pc = "m_wait"
    /\ args.env_passed /\ ~args.risk_passed
    /\ \E r \in inflight :
         /\ JHas(r.body, "env")
         /\ JGet(r.body, "env") = JObj(<<[k |-> "K", v |-> JStr(<<"a">>)]>>)
         /\ JGet(r.body, "riskLevel") = JNum(1)


\* urllib.parse.unquote of a text made of the model's characters
RECURSIVE Unquote(_)
Unquote(s) ==
    IF s = <<>> THEN <<>>
    ELSE IF Head(s) = "%" /\ Len(s) >= 3
      THEN LET h == SubSeq(s, 2, 3)
               rest == Unquote(SubSeq(s, 4, Len(s)))
           IN  CASE h = <<"2", "F">> -> <<"/">> \o rest
                 [] h = <<"3", "A">> -> <<":">> \o rest
                 [] h = <<"3", "F">> -> <<"?">> \o rest
                 [] h = <<"2", "5">> -> <<"%">> \o rest
                 [] h = <<"2", "0">> -> <<" ">> \o rest
                 [] OTHER -> <<"%">> \o Unquote(Tail(s))
      ELSE <<Head(s)>> \o Unquote(Tail(s))

\* C12: for every URI read_resource requests GET /servers/{id}/resources/{enc}
\* where enc is the URI percent-encoded with no safe characters: enc has no
\* '/', ':' or '?' and decodes back to the URI
C12_ReadResourcePath ==
    (script = "read_resource" /\ pc # "m_call") =>
      /\ \A r \in inflight :
           r = Req("GET", <<"servers", args.server_id, "resources", out>>, NULL)
      /\ out = Quote(args.resource_uri, {})
      /\ \A i \in 1..Len(out) : out[i] \notin {"/", ":", "?"}
      /\ Unquote(out) = args.resource_uri

C12_Witness ==
    /\ script = "read_resource" /\ pc = "m_wait"
    /\ args.resource_uri = <<"a", ":", "/">>
    /\ \E r \in inflight : r.path[4] = <<"a", "%", "3", "A", "%", "2", "F">>


\* C15: a script writes a file only as the saved collection of a Postman
\* test and only after POST /generate-postman was answered with status 200;
\* on another status, a timeout or a connection error no file exists
C15_FileOnlyAfter200 ==
    /\ files # {} =>
         /\ script \in {"postman_http", "postman_stdio", "postman_real", "postman_access"}
         /\ pc = "g_done"
         /\ http_body.status = 200
         /\ \A f \in files : f.name \in {"mcp-collection-http", "mcp-collection-stdio",
                                         "math-server-collection",
                                         "math-server-postman-collection"}
    /\ (pc = "g_done" /\ http_body.status # 200) => files = {}

C15_Witness ==
    /\ script = "postman_real" /\ pc = "g_done"
    /\ files = {[name |-> "math-server-collection", content |-> "collection"]}
    /\ returned = JBool(TRUE)


\* urlparse of one of the model's URLs: scheme, netloc and the rest
UrlParts(url) ==
    LET i == Find(url, <<"://">>)
        rest == SubSeq(url, i + 1, Len(url))
        ends == {j \in 1..Len(rest) : rest[j] \in {"/p", "?q", "#f"}}
        k == IF ends = {} THEN Len(rest) + 1 ELSE CHOOSE a \in ends : \A b \in ends : a <= b
    IN  [scheme |-> SubSeq(url, 1, i - 1), netloc |-> SubSeq(rest, 1, k - 1),
         rest |-> SubSeq(rest, k, Len(rest))]

\* hostname and port of a netloc: what follows the last @, the host in
\* brackets or up to the colon; "invalid" where urlparse raises ValueError
HostPort(netloc) ==
    LET at == RFind(netloc, <<"@">>)
        hp == SubSeq(netloc, at + 1, Len(netloc))
        open == Find(hp, <<"[">>)
        close == Find(hp, <<"]">>)
        colon == Find(hp, <<":">>)
    IN  IF (open # 0) # (close # 0) THEN [host |-> <<"invalid">>, port |-> <<>>]
        ELSE IF open # 0
          THEN [host |-> SubSeq(hp, 2, close - 1),
                port |-> SubSeq(hp, close + 2, Len(hp))]
        ELSE IF colon = 0 THEN [host |-> hp, port |-> <<>>]
        ELSE [host |-> SubSeq(hp, 1, colon - 1), port |-> SubSeq(hp, colon + 1, Len(hp))]

\* C17 as stated: without --mcp-port get_mcp_url returns --mcp-url unchanged;
\* for every given --mcp-port the URL returned has the scheme, host, path,
\* params, query and fragment of --mcp-url and the given port
C17_Original ==
    (script = "get_mcp_url" /\ pc = "m_done") =>
      IF args.mcp_port = JNull THEN out = args.mcp_url
      ELSE LET old == UrlParts(args.mcp_url)
               new == UrlParts(out)
           IN  /\ new.scheme = old.scheme
               /\ new.rest = old.rest
               /\ HostPort(new.netloc).host = HostPort(old.netloc).host
               /\ HostPort(new.netloc).port = NatChars(args.mcp_port.n)


\* C16 as stated: MCP_BRIDGE_URL, BRIDGE_URL and GEMINI_API_KEY are each read
\* by a script; when set the variable is the setting the script uses (the
\* bridge base URL, the Gemini key), when unset the built-in default is
C16_Original ==
    pc = "m_done" =>
      /\ script = "import_client" =>
           out.base_url = IF args.MCP_BRIDGE_URL # JNull THEN args.MCP_BRIDGE_URL
                          ELSE JStr(<<"https://mcp-bridge-api-main.onrender.com">>)
      /\ script = "import_basic_example" =>
           out.base_url = IF args.BRIDGE_URL # JNull THEN args.BRIDGE_URL
                          ELSE JStr(<<"https://mcp-bridge-api-main.onrender.com">>)
      /\ (script = "import_llm_test" /\ args.GEMINI_API_KEY # JNull) =>
           out.key = args.GEMINI_API_KEY

\* C16 amended: MCP_BRIDGE_URL, when set, is the base URL of
\* access-bridge/client.py, whose default applies when it is unset;
\* GEMINI_API_KEY, when set, is the Gemini key of llm_test.py, and when unset
\* the key is None, there is no default; BRIDGE_URL is a constant of
\* basic_example.py that no environment variable changes
C16_Environment ==
    pc = "m_done" =>
      /\ script = "import_client" =>
           out.base_url = IF args.MCP_BRIDGE_URL # JNull THEN args.MCP_BRIDGE_URL
                          ELSE JStr(<<"https://mcp-bridge-api-main.onrender.com">>)
      /\ script = "import_basic_example" =>
           out.base_url = JStr(<<"https://mcp-bridge-api-main.onrender.com">>)
      /\ script = "import_llm_test" =>
           /\ out.key = args.GEMINI_API_KEY
           /\ out.base_url = JStr(<<"http://localhost:3000">>)

C16_Witness ==
    /\ script = "import_client" /\ pc = "m_done"
    /\ args.MCP_BRIDGE_URL = JStr(<<"http://b">>)
    /\ out.base_url = JStr(<<"http://b">>)


\* C21 as stated: execute_tool returns a pair with exactly one None
\* component, (response JSON, None) on success and (None, message) on a
\* failed request, and main reports the execution as successful or failed
C21_Original ==
    (script = "agent" /\ pc \in {"a_check", "a_confirm_ask", "a_confirm_send", "a_confirm_wait",
                                 "a_report", "a_loop"} /\ execN > 0) =>
      (execResult.result = PyNone) # (execResult.error = "None")

\* C21 amended: execute_tool returns (response JSON, None) when the request
\* succeeded, where the JSON is None for the body null, and (None, message)
\* when it failed: never a result together with an error; the report of
\* main is "failed" exactly when an error came back, else successful or
\* cancelled
C21_ResultOrError ==
    /\ (script = "agent" /\ execN > 0 /\ pc \in {"a_check", "a_report", "a_loop"}) =>
         /\ execResult.error # "None" => execResult.result = PyNone
         /\ execResult.error \in {"None", "generic", "detail"}
         /\ execResult.error = "None" => execResult.result \in ToolResults
         /\ pc = "a_check" => (result = execResult.result /\ error = execResult.error)
         /\ error # "None" => result = PyNone
    /\ (script = "agent" /\ fbN > 0 /\ pc = "a_loop") =>
         /\ tool_feedback \in {"failed", "success", "cancelled"}
         /\ tool_feedback = "failed" <=> error # "None"

C21_Witness ==
    /\ script = "agent" /\ pc = "a_loop" /\ tool_feedback = "success"
    /\ execResult = [result |-> PyNone, error |-> "None"]


\* C22: when the user declines a confirmation, confirm_operation returns
\* the rejected status and no error whether the POST with confirm=false
\* succeeded or failed, and the feedback sent to the LLM is the cancelled
\* message, never the success or the failure message
C22_DeclineIsCancelled ==
    (script = "agent" /\ promptsThisExec > 0 /\ ~confirmed) =>
      /\ pc = "a_report" => (result = RejectedByUser /\ error = "None")
      /\ (pc = "a_loop" /\ fbN > 0) => tool_feedback = "cancelled"
      /\ \A c \in confirms : c.exec = execN => c.confirm = FALSE

C22_Witness ==
    /\ script = "agent" /\ pc = "a_loop" /\ promptsThisExec > 0 /\ ~confirmed
    /\ tool_feedback = "cancelled"
    /\ \E f \in failed : f.req.path[1] = "confirmations" /\ f.req.body = FALSE
    /\ \E c \in confirms : c.exec = execN


\* C23: the map get_all_tools returns has exactly one entry per server that
\* GET /servers listed; a server whose tools request failed is mapped to
\* the empty list and the servers after it are still asked; when GET
\* /servers failed the map is empty; the warning is printed only when the
\* map is empty
C23_OneEntryPerServer ==
    (script = "agent" /\ out.t = "printed") =>
      /\ Len(all_tools) = Len(servers)
      /\ \A i \in 1..Len(servers) :
           /\ all_tools[i].id = servers[i]
           /\ (\E f \in failed : f.req = ToolsReq(servers[i])) => all_tools[i].tools = "none"
      /\ (\E f \in failed : f.req = Req("GET", <<"servers">>, NULL)) => all_tools = <<>>
      /\ out.msg = "No tools found" <=> all_tools = <<>>

C23_Witness ==
    /\ script = "agent" /\ out.t = "printed" /\ out.msg = "Found tools"
    /\ Len(servers) = 2
    /\ ToolsReq(servers[1]) \in {f.req : f \in failed}
    /\ all_tools[1].tools = "none" /\ all_tools[2].tools = "some"


\* a tool execution, the resources listing or the prompts listing of the demo
IsDemoOperation(r) ==
    /\ Len(r.path) >= 3
    /\ \/ r.m = "POST" /\ r.path[3] = "tools"
       \/ r.m = "GET" /\ Len(r.path) = 3 /\ r.path[3] \in {"resources", "prompts"}

\* C24: in demonstrate_api a failed tool execution is followed by the next
\* tool execution, or after the last one by the resources listing, like a
\* successful one, and a failed resources listing by the prompts listing;
\* after an empty server list or a failed tools listing the demo ends and
\* no tool execution, resources or prompts request is ever sent
C24_FailureContinues ==
    [][script = "demo" =>
         /\ (exc.site = "demo_exec" /\ exc' = NoExc) =>
              (pc' = AfterExec /\ pc' \in DemoSteps /\ dstep' = dstep + 1)
         /\ (exc.site = "demo_resources" /\ exc' = NoExc) => pc' = "d_prompts"
         /\ (exc.site = "demo_tools" /\ exc' = NoExc) => pc' = "done"
         /\ (pc = "d_servers_wait" /\ pc' # pc /\ servers' = <<>>) => pc' = "done"
         /\ pc # "done"
         /\ \A r \in inflight' \ inflight :
              IsDemoOperation(r) =>
                /\ servers # <<>>
                /\ \A f \in failed : f.req # DemoReq("d_tools")]_vars

C24_Witness ==
    /\ script = "demo" /\ pc = "done" /\ out.t = "printed" /\ dstep = Len(DemoCalls) + 1
    /\ \E f \in failed : f.req.m = "POST" /\ f.req.path[4] = "add"
    /\ \A f \in failed : f.req.m = "POST"

\* C25 as stated: 'All operations tested successfully' is printed only on
\* runs in which every tool execution, the resources listing and the prompts
\* listing completed without an error
C25_Original ==
    (script = "demo" /\ out.t = "printed") => \A f \in failed : ~IsDemoOperation(f.req)


\* C26 as stated: in test_generate_postman_with_math_server and
\* test_math_server_postman_generation, whenever the collection has been
\* written to a file the function returns True
C26_Original ==
    (script \in {"postman_real", "postman_access"} /\ pc = "g_done"
       /\ \E f \in files : f.content = "collection") =>
      IF script = "postman_real" THEN returned = JBool(TRUE)
      ELSE returned.items[1] = JBool(TRUE)


\* C27 as stated: test_generate_postman_math_server returns True without any
\* POST /generate-postman whether or not a math server is listed, returns
\* False only when /health answers non-200 or the health request raises,
\* and the summary has Passed + Failed = Tests run
C27_Original ==
    script = "postman_main" =>
      /\ \A r \in inflight : r = Req("GET", <<"health">>, NULL)
      /\ (pc = "t_done" /\ returned # NotReturned) =>
           /\ (http_body.status = 200 /\ http_body.shape \in {"math_listed", "no_math"})
                => returned = JBool(TRUE)
           /\ returned = JBool(FALSE) => http_body.status # 200
           /\ out.passed + out.failed = out.run

\* C27 amended: the test returns True without any POST /generate-postman
\* whether or not a math server is listed; it returns False exactly when
\* /health answers non-200, the health request raises, or the 200 answer
\* cannot be read (it is not JSON or not an object); the summary, printed
\* whenever the test was run, has Passed + Failed = Tests run
C27_MathServerTest ==
    script = "postman_main" =>
      /\ \A r \in inflight : r = Req("GET", <<"health">>, NULL)
      /\ pc # "t_done" => returned = NotReturned
      /\ (pc = "t_done" /\ returned # NotReturned) =>
           /\ returned = JBool(~(\/ http_body.status # 200
                                 \/ http_body.shape \in {"not_json", "not_a_dict"}))
           /\ out.t = "summary" /\ out.run = 1
           /\ out.passed = (IF returned = JBool(TRUE) THEN 1 ELSE 0)
           /\ out.passed + out.failed = out.run

C27_Witness ==
    /\ script = "postman_main" /\ pc = "t_done"
    /\ http_body = [status |-> 200, shape |-> "no_math"]
    /\ returned = JBool(TRUE)
    /\ out = [t |-> "summary", run |-> 1, passed |-> 1, failed |-> 0]


\* C28 as stated: without arguments test_timeout.main sends the health
\* check, then the quick test, waits for Enter and then sends the 20-minute
\* request, each only after the one before succeeded; with a numeric
\* argument the long request is sent directly, without health check or
\* quick test; with a non-numeric argument it exits with status 1 and sends
\* nothing
C28_Original ==
    [][script = "test_timeout" =>
         /\ \A r \in inflight' \ inflight :
              IF args.given
                THEN args.kind \in {"number", "huge"} /\ r.path = <<"test", "timeout", "20.0">>
                ELSE \/ r.path = <<"health">> /\ pc = "w_start"
                     \/ r.path = <<"test", "timeout", "1">> /\ pc = "w_quick"
                     \/ r.path = <<"test", "timeout", "20">> /\ pc = "w_enter"
         /\ (~args.given /\ pc' \in {"w_quick", "w_quick_wait", "w_enter", "w_long_wait"})
              => failed' = {}
         /\ (pc = "w_health_wait" /\ pc' = "w_quick") => inflight' = {}
         /\ (pc = "w_quick_wait" /\ pc' = "w_enter") => inflight' = {}
         /\ (pc = "w_start" /\ args.given /\ args.kind \in {"number", "huge"})
              => (pc' = "w_long_wait" /\ inflight' # {})
         /\ (pc = "w_start" /\ args.kind = "text")
              => (pc' = "w_done" /\ returned' = [t |-> "exit", code |-> 1])]_vars


\* C29: connect_your_server.main sends POST /servers only after the answer
\* to GET /health was received and parsed; test_server runs, that is its
\* requests are sent, only if connect_server returned True, which it does
\* only for status 201 (409, every other status and every exception give
\* False); main never sends a DELETE
C29_ConnectThenTest ==
    [][script = "connect_main" =>
         /\ \A r \in inflight' \ inflight :
              /\ r.m # "DELETE"
              /\ (r.m = "POST") =>
                   /\ r.path = <<"servers">> /\ pc = "k_connect"
                   /\ http_body.shape \in {"full", "keys_missing"}
                   /\ failed = {}
              /\ (r.m = "GET" /\ r.path # <<"health">>) =>
                   /\ returned = JBool(TRUE)
                   /\ \A f \in failed : f.req.m # "POST"
         /\ (returned' = JBool(TRUE) /\ returned # JBool(TRUE)) =>
              (pc = "k_connect_wait" /\ http_body'.status = 201 /\ failed' = {})
         /\ (pc = "k_connect_wait" /\ pc' # pc /\ http_body'.status # 201) =>
              (returned' = JBool(FALSE) /\ pc' = "k_done")
         /\ pc # "k_done"]_vars

C29_Witness ==
    /\ script = "connect_main" /\ pc = "k_done"
    /\ returned = JBool(TRUE)
    /\ out = [t |-> "test_server", ok |-> TRUE]
    /\ failed = {}

====
